---- MODULE Spec2Model ----
(***************************************************************************)
(* Session-log analysis scripts (plan/04-learn/scripts): the tolerant      *)
(* event parser parse_log_file and the analyses built on the events it     *)
(* yields (analyze_session, extract_failures, analyze_timing,              *)
(* find_slow_commands).                                                    *)
(*                                                                         *)
(* Text is modelled at two grains.  A log file is a sequence of tokens,    *)
(* each token a fixed piece of text (the marker line text, a newline, a    *)
(* brace, a whole "key": "value" member, a narration word, a byte that is  *)
(* not valid UTF-8).  A Python str handled by the analyses (a command, an  *)
(* output, an action kind, a timestamp) is a sequence of one-character     *)
(* strings.  A dict is a function from its keys; dict.get is Get.          *)
(***************************************************************************)
EXTENDS Integers, Sequences, FiniteSets, TLC

(***************************************************************************)
(* Bounds of the model.                                                    *)
(***************************************************************************)
\* number of segments (narration lines, event blocks) of a generated file
MaxSegs == 3
\* number of event blocks of a generated log of the analyses
MaxEvents == 4

(***************************************************************************)
(* Python values.                                                          *)
(***************************************************************************)
\* None where a str is expected: a sequence no str can equal (every element
\* of a str is one character long)
None == <<"None">>

\* dict.get(key, default)
Get(d, k, default) == IF k \in DOMAIN d THEN d[k] ELSE default

\* the empty dict {}
EmptyDict == [k \in {} |-> None]

(***************************************************************************)
(* Python str operations, on sequences of one-character strings.           *)
(***************************************************************************)
Min(a, b) == IF a <= b THEN a ELSE b

\* s[:n]
Take(s, n) == SubSeq(s, 1, Min(n, Len(s)))

\* sub in s
Contains(sub, s) ==
    \E i \in 0..(Len(s) - Len(sub)) : SubSeq(s, i + 1, i + Len(sub)) = sub

\* any(x in s for x in subs)
ContainsAny(subs, s) == \E x \in subs : Contains(x, s)

\* str.isspace() of one character
IsSpace(c) == c \in {" ", "\t", "\n", "\r"}

\* s.lstrip(), s.rstrip(), s.strip()
RECURSIVE LStrip(_)
LStrip(s) == IF s # <<>> /\ IsSpace(Head(s)) THEN LStrip(Tail(s)) ELSE s

RECURSIVE RStrip(_)
RStrip(s) ==
    IF s # <<>> /\ IsSpace(s[Len(s)]) THEN RStrip(SubSeq(s, 1, Len(s) - 1)) ELSE s

Strip(s) == RStrip(LStrip(s))

\* s.lower()
UpperLetters == <<"A","B","C","D","E","F","G","H","I","J","K","L","M",
                  "N","O","P","Q","R","S","T","U","V","W","X","Y","Z">>
LowerLetters == <<"a","b","c","d","e","f","g","h","i","j","k","l","m",
                  "n","o","p","q","r","s","t","u","v","w","x","y","z">>

LowerChar(c) ==
    IF \E i \in DOMAIN UpperLetters : UpperLetters[i] = c
    THEN LowerLetters[CHOOSE i \in DOMAIN UpperLetters : UpperLetters[i] = c]
    ELSE c

Lower(s) == [i \in DOMAIN s |-> LowerChar(s[i])]

\* s.split('\n')
RECURSIVE SplitLines(_)
SplitLines(s) ==
    IF \E i \in DOMAIN s : s[i] = "\n"
    THEN LET i == CHOOSE i \in DOMAIN s : s[i] = "\n" /\ \A j \in 1..(i - 1) : s[j] # "\n"
         IN  <<SubSeq(s, 1, i - 1)>> \o SplitLines(SubSeq(s, i + 1, Len(s)))
    ELSE <<s>>

\* [x for x in seq if Test(x)]
RECURSIVE SelectSeqIn(_, _)
SelectSeqIn(seq, keep) ==
    IF seq = <<>> THEN <<>>
    ELSE IF Head(seq) \in keep THEN <<Head(seq)>> \o SelectSeqIn(Tail(seq), keep)
    ELSE SelectSeqIn(Tail(seq), keep)

\* c * n
Rep(c, n) == [i \in 1..n |-> c]

(***************************************************************************)
(* The literals of the scripts.                                            *)
(***************************************************************************)
KwTerminalAction == <<"T","e","r","m","i","n","a","l","A","c","t","i","o","n">>
KwFileEditorAction == <<"F","i","l","e","E","d","i","t","o","r","A","c","t","i","o","n">>
KwContainer == <<"c","o","n","t","a","i","n","e","r">>
KwView == <<"v","i","e","w">>
KwLs == <<"l","s">>
KwFind == <<"f","i","n","d">>
KwCat == <<"c","a","t">>
KwHead == <<"h","e","a","d">>
KwTail == <<"t","a","i","l">>
KwGrep == <<"g","r","e","p">>
KwGoBuild == <<"g","o"," ","b","u","i","l","d">>
KwMakeBuild == <<"m","a","k","e"," ","b","u","i","l","d">>
KwGoTest == <<"g","o"," ","t","e","s","t">>
KwMakeTest == <<"m","a","k","e"," ","t","e","s","t">>
KwMakeCheck == <<"m","a","k","e"," ","c","h","e","c","k">>
KwFindSp == <<"f","i","n","d"," ">>
KwGrepR == <<"g","r","e","p"," ","-","r">>
KwLsLa == <<"l","s"," ","-","l","a">>
KwCatSp == <<"c","a","t"," ">>
KwCompcert == <<"c","o","m","p","c","e","r","t">>
KwDotV == <<".","v">>
KwCoqDir == <<"/","c","o","q","/">>
KwExploringCompcertCoq == <<"e","x","p","l","o","r","i","n","g","_","c","o","m","p","c","e","r","t","_","c","o","q">>
KwError == <<"e","r","r","o","r">>
KwUnknown == <<"u","n","k","n","o","w","n">>
KwRalphMd == <<"R","A","L","P","H",".","m","d">>
KwPlan == <<"P","L","A","N">>
KwActionEvent == <<"A","c","t","i","o","n","E","v","e","n","t">>
KwObservationEvent == <<"O","b","s","e","r","v","a","t","i","o","n","E","v","e","n","t">>
KwMessageEvent == <<"M","e","s","s","a","g","e","E","v","e","n","t">>
KwUtcOffset == <<"+","0","0",":","0","0">>
\* str(e) of a json.JSONDecodeError, whatever its text
KwJSONDecodeError == <<"J","S","O","N","D","e","c","o","d","e","E","r","r","o","r">>

(***************************************************************************)
(* File content: tokens.                                                   *)
(*   "M"   the marker text  --JSON Event--                                 *)
(*   "NL"  a newline, "SP" a space                                         *)
(*   "{" "}" ","  the JSON punctuation                                     *)
(*   "KA" "KO" "KT"  the members "kind": "ActionEvent",                    *)
(*         "kind": "ObservationEvent", "kind": "TerminalAction"            *)
(*   "T1" "T2"  the members "timestamp": "<TsOne>", "timestamp": "<TsTwo>" *)
(*   "AK"  the key and colon  "action":                                    *)
(*   "W"   a narration word (no quote, brace, whitespace or marker in it)  *)
(*   "X"   one byte that is not valid UTF-8 (0xff)                         *)
(*   "Y"   the character U+00FF, "?" the replacement placeholder,          *)
(*   "SUR" a lone surrogate code point                                     *)
(***************************************************************************)
IsWs(t) == t \in {"NL", "SP"}

\* the two timestamp texts of the generated files
TsOne == <<"2","0","2","5","-","0","1","-","0","2","T","0","0",":","0","0",":","5","8","Z">>
TsTwo == <<"2","0","2","5","-","0","1","-","0","2","T","0","0",":","0","1",":","0","5","Z">>

IsMember(t) == t \in {"KA", "KO", "KT", "T1", "T2"}

MemberKey(t) == IF t \in {"KA", "KO", "KT"} THEN "kind" ELSE "timestamp"

MemberVal(t) ==
    CASE t = "KA" -> KwActionEvent
      [] t = "KO" -> KwObservationEvent
      [] t = "KT" -> KwTerminalAction
      [] t = "T1" -> TsOne
      [] t = "T2" -> TsTwo

\* number of characters of a token's text
TokLen(t) ==
    CASE t = "M" -> 14
      [] t = "KA" -> 21
      [] t = "KO" -> 26
      [] t = "KT" -> 24
      [] t \in {"T1", "T2"} -> 35
      [] t = "AK" -> 9
      [] t = "W" -> 5
      [] OTHER -> 1

RECURSIVE TextLen(_)
TextLen(s) == IF s = <<>> THEN 0 ELSE TokLen(Head(s)) + TextLen(Tail(s))

(***************************************************************************)
(* path.read_text(): decoding the bytes of the file with the locale's      *)
(* encoding, errors='strict'.                                              *)
(***************************************************************************)
Encodings == {"utf-8", "latin-1"}

\* TRUE when decoding raises UnicodeDecodeError
DecodeRaises(enc, bytes) ==
    enc = "utf-8" /\ \E i \in DOMAIN bytes : bytes[i] = "X"

\* the decoded text (latin-1 maps byte 0xff to U+00FF)
DecodeText(enc, bytes) ==
    [i \in DOMAIN bytes |-> IF bytes[i] = "X" THEN "Y" ELSE bytes[i]]

(***************************************************************************)
(* re.finditer(r'--JSON Event--\s*\n(\{.*?\})\s*(?=--JSON Event--|$)',      *)
(*             content, re.DOTALL)                                         *)
(***************************************************************************)
\* first position >= i of text that is not whitespace (Len(text)+1 at the end)
RECURSIVE SkipWs(_, _)
SkipWs(text, i) ==
    IF i <= Len(text) /\ IsWs(text[i]) THEN SkipWs(text, i + 1) ELSE i

\* \s*(?=--JSON Event--|$) at position i: the whitespace run from i ends at a
\* marker or at the end of the text
LookaheadOk(text, i) ==
    LET j == SkipWs(text, i) IN j > Len(text) \/ text[j] = "M"

\* --JSON Event--\s*\n\{ at position p: the position of the brace, 0 if none
OpenAt(text, p) ==
    IF p > Len(text) \/ text[p] # "M" THEN 0
    ELSE LET q == SkipWs(text, p + 1) IN
         IF q <= Len(text) /\ q > p + 1 /\ text[q - 1] = "NL" /\ text[q] = "{"
         THEN q ELSE 0

\* .*?\} from the brace at q: the least r with a closing brace at r after which
\* the lookahead succeeds, 0 if none
CloseFrom(text, q) ==
    LET rs == {r \in (q + 1)..Len(text) : text[r] = "}" /\ LookaheadOk(text, r + 1)}
    IN  IF rs = {} THEN 0 ELSE CHOOSE r \in rs : \A r2 \in rs : r <= r2

\* a match starting at p: [found, open, close, end], end the position after it
MatchAt(text, p) ==
    LET q == OpenAt(text, p)
        r == IF q = 0 THEN 0 ELSE CloseFrom(text, q)
    IN  IF q = 0 \/ r = 0
        THEN [found |-> FALSE, start |-> 0, open |-> 0, close |-> 0, end |-> 0]
        ELSE [found |-> TRUE, start |-> p, open |-> q, close |-> r,
              end |-> SkipWs(text, r + 1)]

\* the leftmost match at or after position from
RECURSIVE FindMatch(_, _)
FindMatch(text, from) ==
    IF from > Len(text) THEN MatchAt(text, from)
    ELSE LET m == MatchAt(text, from) IN
         IF m.found THEN m ELSE FindMatch(text, from + 1)

(***************************************************************************)
(* json_str.encode('utf-8', errors='replace').decode('utf-8'): a code      *)
(* point that UTF-8 cannot encode (a lone surrogate) becomes "?".          *)
(***************************************************************************)
Sanitize(s) == [i \in DOMAIN s |-> IF s[i] = "SUR" THEN "?" ELSE s[i]]

(***************************************************************************)
(* json.loads(json_str, strict=False) on the tokens of one block.          *)
(*   object := "{" ws [ member ( ws "," ws member )* ] ws "}"              *)
(*   member := KA | KO | KT | T1 | T2 | AK ws object                       *)
(* A later member of the same key replaces the earlier one.                *)
(***************************************************************************)
Fail == [ok |-> FALSE, next |-> 0, val |-> EmptyDict]

RECURSIVE ParseObject(_, _), ParseMembers(_, _, _), ParseMember(_, _)
\* the member starting at i: [ok, next, key, val]
ParseMember(s, i) ==
    IF i > Len(s) THEN [ok |-> FALSE, next |-> 0, key |-> "", val |-> None]
    ELSE IF IsMember(s[i])
         THEN [ok |-> TRUE, next |-> i + 1, key |-> MemberKey(s[i]), val |-> MemberVal(s[i])]
    ELSE IF s[i] = "AK"
         THEN LET o == ParseObject(s, SkipWs(s, i + 1)) IN
              [ok |-> o.ok, next |-> o.next, key |-> "action", val |-> o.val]
    ELSE [ok |-> FALSE, next |-> 0, key |-> "", val |-> None]

\* members from i on, acc the dict so far, up to and including the closing brace
ParseMembers(s, i, acc) ==
    LET m == ParseMember(s, i) IN
    IF ~m.ok THEN Fail
    ELSE LET d == (m.key :> m.val) @@ acc
             j == SkipWs(s, m.next)
         IN  IF j > Len(s) THEN Fail
             ELSE IF s[j] = "}" THEN [ok |-> TRUE, next |-> j + 1, val |-> d]
             ELSE IF s[j] = "," THEN ParseMembers(s, SkipWs(s, j + 1), d)
             ELSE Fail

\* the object starting at i
ParseObject(s, i) ==
    IF i > Len(s) \/ s[i] # "{" THEN Fail
    ELSE LET j == SkipWs(s, i + 1) IN
         IF j > Len(s) THEN Fail
         ELSE IF s[j] = "}" THEN [ok |-> TRUE, next |-> j + 1, val |-> EmptyDict]
         ELSE ParseMembers(s, j, EmptyDict)

\* json.loads: one value, then only whitespace ("Extra data" otherwise)
JsonLoads(s) ==
    LET o == ParseObject(s, SkipWs(s, 1)) IN
    IF o.ok /\ SkipWs(s, o.next) > Len(s) THEN o ELSE Fail

(***************************************************************************)
(* re.search(r'"kind":\s*"([^"]+)"', json_str) and the timestamp one: the  *)
(* first member of that key anywhere in the text of the block.             *)
(***************************************************************************)
\* re.match in place of re.search: the member is found only at the start
SearchMemberAnchored(s, key) ==
    IF s # <<>> /\ IsMember(s[1]) /\ MemberKey(s[1]) = key
    THEN [found |-> TRUE, val |-> MemberVal(s[1])]
    ELSE [found |-> FALSE, val |-> None]

SearchMember(s, key) ==
    LET hits == {i \in DOMAIN s : IsMember(s[i]) /\ MemberKey(s[i]) = key}
    IN  IF hits = {} THEN [found |-> FALSE, val |-> None]
        ELSE [found |-> TRUE,
              val |-> MemberVal(s[CHOOSE i \in hits : \A j \in hits : i <= j])]

(***************************************************************************)
(* The six copies of parse_log_file and what each does with a block that   *)
(* fails to decode.                                                        *)
(***************************************************************************)
Copies == {"parse_logs", "analyze_session", "failure_patterns",
           "timing_analysis", "slow_commands", "extract_reasoning"}

\* every copy, as if each except branch looked for a kind
CopiesWithExceptBranch == Copies

\* the copies whose except branch looks for a kind and yields a degraded event
DegradingCopies == {"parse_logs", "analyze_session", "failure_patterns"}

\* the payload of a degraded event
DegradedData(c, jsonStr) ==
    CASE c = "parse_logs" ->
            [_parse_error |-> KwJSONDecodeError, _raw_length |-> TextLen(jsonStr)]
      [] c = "analyze_session" -> [_parse_error |-> KwJSONDecodeError]
      [] OTHER -> [_parse_error |-> TRUE]

\* LogEvent(kind=data.get("kind", "unknown"), timestamp=data.get("timestamp"), data=data)
DecodedEvent(data) ==
    [kind |-> Get(data, "kind", KwUnknown),
     timestamp |-> Get(data, "timestamp", None),
     data |-> data]

\* LogEvent(kind=kind_match.group(1), timestamp=ts_match.group(1) if ts_match else None, ...)
DegradedEvent(c, jsonStr) ==
    [kind |-> SearchMember(jsonStr, "kind").val,
     timestamp |-> SearchMember(jsonStr, "timestamp").val,
     data |-> DegradedData(c, jsonStr)]

(***************************************************************************)
(* Generated log files: a file is a sequence of segments.                  *)
(***************************************************************************)
Narration == <<"W", "NL">>
BlockAction == <<"M", "NL", "{", "KA", ",", "T1", "}", "NL">>
BlockObs == <<"M", "NL", "{", "KO", ",", "SP", "T2", "}", "NL">>
BlockNested == <<"M", "SP", "NL", "{", "AK", "{", "KT", "}", ",", "KA", "}", "NL">>
BlockNoKind == <<"M", "NL", "{", "T2", "}", "NL">>
BadWithKind == <<"M", "NL", "{", "KA", ",", "T1", "W", "}", "NL">>
BadNestedFirst == <<"M", "NL", "{", "AK", "{", "KT", "}", "W", ",", "KO", "}", "NL">>
BadNoKind == <<"M", "NL", "{", "W", "}", "NL">>
Truncated == <<"M", "NL", "{", "KO", ",", "T2", "NL">>
BadByteLine == <<"X", "NL">>

GoodBlocks == {BlockAction, BlockObs, BlockNested, BlockNoKind}
MalformedWithKind == {BadWithKind, BadNestedFirst, Truncated}
SegmentPool == GoodBlocks \cup MalformedWithKind \cup {Narration, BadNoKind, BadByteLine}

RECURSIVE Flatten(_)
Flatten(segs) == IF segs = <<>> THEN <<>> ELSE Head(segs) \o Flatten(Tail(segs))

\* position of the first token of segment i in the flattened file
SegStart(segs, i) == Len(Flatten(SubSeq(segs, 1, i - 1))) + 1

VARIABLES
    logFile,    \* the file on disk, as its segments
    encoding,   \* the locale's encoding, used by read_text
    copy,       \* which copy of parse_log_file runs
    pstate,     \* "start", "scanning", "done", "raised"
    content,    \* the decoded text
    pos,        \* where finditer searches next
    events,     \* the events yielded so far
    src,        \* for each event yielded, the position of its block's marker
    blocks,     \* for each block matched so far, [start, open, close, outcome]
    diags,      \* number of warnings written to sys.stderr
    logDir,     \* log_dir.glob("*.log"): the files [name, events] as listed
    threshold,  \* the threshold argument of find_slow_commands, in seconds
    session,    \* analyze_session: its locals and the SessionAnalysis
    failures,   \* extract_failures and its main: locals, result, report
    timing,     \* timing_analysis main and analyze_timing: locals, result
    slow,       \* find_slow_commands: its locals and result
    reasoning,  \* extract_reasoning and its main: locals, samples, report
    hans        \* hans.py main: its position, the working tree, the commands run

parserVars == <<logFile, encoding, copy, pstate, content, pos, events, src, blocks, diags>>

analysisVars == <<logDir, threshold, session, failures, timing, slow, reasoning, hans>>

vars == <<parserVars, analysisVars>>

ParserInit ==
    /\ logFile \in UNION {[1..n -> SegmentPool] : n \in 0..MaxSegs}
    \* the locale's encoding decides nothing for a file of ASCII bytes
    /\ encoding \in IF \E i \in DOMAIN logFile : logFile[i] = BadByteLine
                     THEN Encodings ELSE {"utf-8"}
    /\ copy \in Copies
    /\ pstate = "start"
    /\ content = <<>>
    /\ pos = 1
    /\ events = <<>>
    /\ src = <<>>
    /\ blocks = <<>>
    /\ diags = 0

\* content = path.read_text()
ReadText ==
    /\ pstate = "start"
    /\ IF DecodeRaises(encoding, Flatten(logFile))
       THEN pstate' = "raised" /\ content' = content
       ELSE pstate' = "scanning" /\ content' = DecodeText(encoding, Flatten(logFile))
    /\ UNCHANGED <<logFile, encoding, copy, pos, events, src, blocks, diags, analysisVars>>

\* the next match of finditer and the block text json_str of it
NextMatch == FindMatch(content, pos)
JsonStr(m) == Sanitize(SubSeq(content, m.open, m.close))

\* a loop that would stop after its first match
MatchedThenStop(m, outcome) ==
    /\ pos' = Len(content) + 1
    /\ blocks' = Append(blocks, [start |-> m.start, open |-> m.open, close |-> m.close,
                               outcome |-> outcome])

Matched(m, outcome) ==
    /\ pos' = m.end
    /\ blocks' = Append(blocks, [start |-> m.start, open |-> m.open, close |-> m.close,
                               outcome |-> outcome])

\* try branch: the block decodes
YieldDecoded ==
    /\ pstate = "scanning"
    /\ LET m == NextMatch IN
       /\ m.found
       /\ JsonLoads(JsonStr(m)).ok
       /\ events' = Append(events, DecodedEvent(JsonLoads(JsonStr(m)).val))
       /\ src' = Append(src, m.start)
       /\ Matched(m, "decoded")
    /\ UNCHANGED <<logFile, encoding, copy, pstate, content, diags, analysisVars>>

\* except branch, kind_match found: a degraded event
YieldDegraded ==
    /\ pstate = "scanning"
    /\ copy \in DegradingCopies
    /\ LET m == NextMatch IN
       /\ m.found
       /\ ~JsonLoads(JsonStr(m)).ok
       /\ SearchMember(JsonStr(m), "kind").found
       /\ events' = Append(events, DegradedEvent(copy, JsonStr(m)))
       /\ src' = Append(src, m.start)
       /\ Matched(m, "degraded")
    /\ UNCHANGED <<logFile, encoding, copy, pstate, content, diags, analysisVars>>

\* except branch without an event: pass, or no kind_match (parse_logs warns)
DropBlock ==
    /\ pstate = "scanning"
    /\ LET m == NextMatch IN
       /\ m.found
       /\ ~JsonLoads(JsonStr(m)).ok
       /\ copy \in DegradingCopies => ~SearchMember(JsonStr(m), "kind").found
       /\ Matched(m, "dropped")
    /\ diags' = IF copy = "parse_logs" THEN diags + 1 ELSE diags
    /\ UNCHANGED <<logFile, encoding, copy, pstate, content, events, src, analysisVars>>

\* finditer is exhausted
Finish ==
    /\ pstate = "scanning"
    /\ ~NextMatch.found
    /\ pstate' = "done"
    /\ UNCHANGED <<logFile, encoding, copy, content, pos, events, src, blocks, diags, analysisVars>>


\* the parser at rest, in the specifications of the analyses
ParserIdle ==
    /\ logFile = <<>>
    /\ encoding = "utf-8"
    /\ copy = "analyze_session"
    /\ pstate = "idle"
    /\ content = <<>>
    /\ pos = 1
    /\ events = <<>>
    /\ src = <<>>
    /\ blocks = <<>>
    /\ diags = 0

(***************************************************************************)
(* Events as the analyses read them.                                       *)
(***************************************************************************)
\* Python truth value of a str or None
TruthyStr(s) == s # None /\ s # <<>>

\* the decoded object of a block: kind, timestamp when given, and the rest
EventData(kind, ts, rest) ==
    ("kind" :> kind) @@ (IF ts = None THEN EmptyDict ELSE ("timestamp" :> ts)) @@ rest

\* A file whose blocks are each delimited by the next marker or the end of
\* the file, block by block: a block that decodes, with its object, or one
\* that does not, with what the two searches of the except branch find in it
\* (None for no match) and the length of its text.
GoodBlock(data) == [decodes |-> TRUE, data |-> data]
BadBlock(kind, ts, length) ==
    [decodes |-> FALSE, kind |-> kind, timestamp |-> ts, raw_length |-> length]

ActionBlock(ts, action) == GoodBlock(EventData(KwActionEvent, ts, "action" :> action))
ObservationBlock(ts, obs) ==
    GoodBlock(EventData(KwObservationEvent, ts, "observation" :> obs))
PlainBlock(kind, ts) == GoodBlock(EventData(kind, ts, EmptyDict))

\* list(parse_log_file(path)) of copy c on such a file
RECURSIVE ParsedEvents(_, _)
ParsedEvents(c, blks) ==
    IF blks = <<>> THEN <<>>
    ELSE LET b == Head(blks)
             rest == ParsedEvents(c, Tail(blks))
         IN  IF b.decodes THEN <<DecodedEvent(b.data)>> \o rest
             ELSE IF c \in DegradingCopies /\ b.kind # None
                  THEN <<[kind |-> b.kind, timestamp |-> b.timestamp,
                          data |-> IF c = "parse_logs"
                                   THEN [_parse_error |-> KwJSONDecodeError,
                                         _raw_length |-> b.raw_length]
                                   ELSE IF c = "analyze_session"
                                   THEN [_parse_error |-> KwJSONDecodeError]
                                   ELSE [_parse_error |-> TRUE]]>> \o rest
             ELSE rest

\* a TerminalAction and a FileEditorAction
Terminal(cmd) == [kind |-> KwTerminalAction, command |-> cmd]
FileEditor(cmd, path) == [kind |-> KwFileEditorAction, command |-> cmd, path |-> path]

\* an observation that is a dict carries pytype "dict" beside its items;
\* isinstance(obs, dict)
IsDict(obs) == obs.pytype = "dict"
Obs(items) == ("pytype" :> "dict") @@ items
NotADict == [pytype |-> "str"]

\* an exit code of 0 taken for a failure: the test is only that it is there
IsFailingWhenPresent(obs) == "exit_code" \in DOMAIN obs

\* exit_code and exit_code != 0, for exit_code = obs.get("exit_code")
IsFailing(obs) == "exit_code" \in DOMAIN obs /\ obs.exit_code # 0

(***************************************************************************)
(* analyze_session.py                                                      *)
(***************************************************************************)
LongOutputThreshold == 5000
SessionFailurePreview == 200
LongOutputPreview == 100
ExplorationPreview == 100
SessionKeyLength == 80
TaskTextLength == 500
TaskContextLength == 200

ExplorationTokens == {KwLs, KwFind, KwCat, KwHead, KwTail, KwGrep}

\* SessionAnalysis(log_file=log_path.name)
SessionAnalysis(name) ==
    [log_file |-> name, total_events |-> 0, action_count |-> 0,
     message_count |-> 0, observation_count |-> 0, terminal_actions |-> 0,
     file_editor_actions |-> 0, file_read_actions |-> 0, container_actions |-> 0,
     other_actions |-> 0, repeated_commands |-> <<>>, failed_commands |-> <<>>,
     long_outputs |-> <<>>, exploration_actions |-> <<>>,
     start_time |-> None, end_time |-> None, task_context |-> <<>>]

\* a timeline whose start follows every timestamped event
SessionTimelineRestarting(a, event) ==
    IF TruthyStr(event.timestamp)
    THEN [a EXCEPT !.start_time = event.timestamp, !.end_time = event.timestamp]
    ELSE a

\* lines 92-95: the timeline
SessionTimeline(a, event) ==
    IF TruthyStr(event.timestamp)
    THEN [a EXCEPT !.start_time = IF ~TruthyStr(a.start_time) THEN event.timestamp ELSE @,
                   !.end_time = event.timestamp]
    ELSE a

\* lines 100-109: the task context of a message
TaskContextOf(a, event) ==
    IF ~TruthyStr(a.task_context) /\ "llm_message" \in DOMAIN event.data
    THEN LET parts == Get(event.data.llm_message, "content", <<>>)
             withText == {i \in DOMAIN parts : "text" \in DOMAIN parts[i]}
         IN  IF withText = {} THEN a.task_context
             ELSE LET first == CHOOSE i \in withText : \A j \in withText : i <= j
                      text == Take(parts[first].text, TaskTextLength)
                  IN  IF Contains(KwRalphMd, text) \/ Contains(KwPlan, text)
                      THEN Take(text, TaskContextLength)
                      ELSE a.task_context
    ELSE a.task_context

\* the container test without lower()
ActionSubtypeCaseSensitive(action_kind) ==
    IF action_kind = KwTerminalAction THEN "Terminal"
    ELSE IF action_kind = KwFileEditorAction THEN "FileEditor"
    ELSE IF Contains(KwContainer, action_kind) THEN "Container"
    ELSE "Other"

\* lines 116-136: the subtype of an action kind
ActionSubtype(action_kind) ==
    IF action_kind = KwTerminalAction THEN "Terminal"
    ELSE IF action_kind = KwFileEditorAction THEN "FileEditor"
    ELSE IF Contains(KwContainer, Lower(action_kind)) THEN "Container"
    ELSE "Other"

\* lines 111-136: an ActionEvent; s is the record of the locals
SessionAction(s, event) ==
    LET action == Get(event.data, "action", EmptyDict)
        action_kind == Get(action, "kind", <<>>)
        sub == ActionSubtype(action_kind)
        cmd == Get(action, "command", <<>>)
        path == Get(action, "path", <<>>)
        a == [s.analysis EXCEPT !.action_count = @ + 1]
    IN  CASE sub = "Terminal" ->
                [s EXCEPT !.analysis =
                              [a EXCEPT !.terminal_actions = @ + 1,
                                        !.exploration_actions =
                                            IF ContainsAny(ExplorationTokens, cmd)
                                            THEN Append(@, Take(cmd, ExplorationPreview))
                                            ELSE @],
                          !.command_history = Append(@, cmd)]
          [] sub = "FileEditor" ->
                [s EXCEPT !.analysis = [a EXCEPT !.file_editor_actions = @ + 1],
                          !.file_views = IF cmd = KwView THEN Append(@, path) ELSE @]
          [] sub = "Container" ->
                [s EXCEPT !.analysis = [a EXCEPT !.container_actions = @ + 1]]
          [] OTHER ->
                [s EXCEPT !.analysis = [a EXCEPT !.other_actions = @ + 1]]

\* lines 138-158: an ObservationEvent
SessionObservation(s, event) ==
    LET obs == Get(event.data, "observation", Obs(EmptyDict))
        a == [s.analysis EXCEPT !.observation_count = @ + 1]
    IN  IF IsDict(obs)
        THEN LET output == Get(obs, "output", <<>>) IN
             [s EXCEPT !.analysis =
                 [a EXCEPT !.failed_commands =
                               IF IsFailing(obs)
                               THEN Append(@, [exit_code |-> obs.exit_code,
                                               output_preview |-> Take(output, SessionFailurePreview)])
                               ELSE @,
                           !.long_outputs =
                               IF Len(output) > LongOutputThreshold
                               THEN Append(@, [length |-> Len(output),
                                               preview |-> Take(output, LongOutputPreview)])
                               ELSE @]]
        ELSE [s EXCEPT !.analysis = a]

\* lines 91-158: one pass of the loop body
SessionAfterEvent(s, event) ==
    LET t == [s EXCEPT !.analysis = SessionTimeline(@, event)] IN
    IF event.kind = KwMessageEvent
    THEN [t EXCEPT !.analysis = [@ EXCEPT !.message_count = @ + 1,
                                          !.task_context = TaskContextOf(t.analysis, event)]]
    ELSE IF event.kind = KwActionEvent THEN SessionAction(t, event)
    ELSE IF event.kind = KwObservationEvent THEN SessionObservation(t, event)
    ELSE t

\* normalized = cmd.strip()[:80]
SessionKey(cmd) == Take(Strip(cmd), SessionKeyLength)

\* a defaultdict(int) as its items in insertion order: counts[key] += 1
CountUp(counts, key) ==
    IF \E i \in DOMAIN counts : counts[i].command = key
    THEN [i \in DOMAIN counts |->
            IF counts[i].command = key
            THEN [counts[i] EXCEPT !.count = @ + 1] ELSE counts[i]]
    ELSE Append(counts, [command |-> key, count |-> 1])

\* lines 161-165: cmd_counts of the command history
RECURSIVE SessionCounts(_, _)
SessionCounts(history, counts) ==
    IF history = <<>> THEN counts
    ELSE SessionCounts(Tail(history), CountUp(counts, SessionKey(Head(history))))

\* [x for x in counts if x.count >= least], in order
RECURSIVE AtLeast(_, _)
AtLeast(counts, least) ==
    IF counts = <<>> THEN <<>>
    ELSE IF Head(counts).count >= least
         THEN <<Head(counts)>> \o AtLeast(Tail(counts), least)
         ELSE AtLeast(Tail(counts), least)

RepeatThreshold == 2

\* lines 167-169
RepeatedCommands(history) == AtLeast(SessionCounts(history, <<>>), RepeatThreshold)

(***************************************************************************)
(* Ordering: sorted(...) of names, and the stable sorts of the reports.    *)
(***************************************************************************)
\* the characters of file names and action kinds, in code point order
Ascii == <<" ","-",".","/","0","1","2","3","4","5","6","7","8","9",":",
           "A","B","C","D","E","F","G","H","I","J","K","L","M",
           "N","O","P","Q","R","S","T","U","V","W","X","Y","Z","_",
           "a","b","c","d","e","f","g","h","i","j","k","l","m",
           "n","o","p","q","r","s","t","u","v","w","x","y","z">>

Ord(c) == CHOOSE i \in DOMAIN Ascii : Ascii[i] = c

\* a < b for two str
RECURSIVE StrLess(_, _)
StrLess(a, b) ==
    IF b = <<>> THEN FALSE
    ELSE IF a = <<>> THEN TRUE
    ELSE IF Head(a) = Head(b) THEN StrLess(Tail(a), Tail(b))
    ELSE Ord(Head(a)) < Ord(Head(b))

\* sorted(seq, key=Key) is stable: x goes after every y with Key(y) <= Key(x).
\* InsertBy puts x into the sorted seq; Before(x, y) is Key(x) < Key(y).
RECURSIVE InsertBy(_, _, _)
InsertBy(Before(_, _), sorted, x) ==
    IF sorted = <<>> THEN <<x>>
    ELSE IF Before(x, Head(sorted)) THEN <<x>> \o sorted
    ELSE <<Head(sorted)>> \o InsertBy(Before, Tail(sorted), x)

RECURSIVE SortBy(_, _, _)
SortBy(Before(_, _), seq, acc) ==
    IF seq = <<>> THEN acc
    ELSE SortBy(Before, Tail(seq), InsertBy(Before, acc, Head(seq)))

\* sorted(log_dir.glob("*.log")): by name
NameBefore(x, y) == StrLess(x.name, y.name)
SortedFiles(dir) == SortBy(NameBefore, dir, <<>>)

\* a key that would put an entry before the entries of equal count
CountBeforeOrEqual(x, y) == x.count >= y.count

\* key=lambda x: -x["count"]
CountBefore(x, y) == x.count > y.count
SortedByCount(seq) == SortBy(CountBefore, seq, <<>>)

(***************************************************************************)
(* failure_patterns.py                                                     *)
(***************************************************************************)
FailureKeyLength == 60
FailureCommandLength == 100
FailurePreview == 300
RetryThreshold == 3
ReportedFailures == 10
ReportedCommandLength == 70
ReportedErrorLines == 2
ReportedErrorLength == 80
ReportedRetryLoops == 15
ReportedRetryLength == 60
ReportedWasteItems == 3

WasteCommands == {KwFindSp, KwGrepR, KwLsLa, KwCatSp}
WasteTargets == {KwCompcert, KwDotV, KwCoqDir}
BuildCommands == {KwGoBuild, KwMakeBuild}
TestCommands == {KwGoTest, KwMakeTest, KwMakeCheck}

\* lines 54-60
NoFailures ==
    [build_failures |-> <<>>, test_failures |-> <<>>, exploration_waste |-> <<>>,
     retry_loops |-> <<>>, missing_knowledge |-> <<>>]

\* cmd_key = cmd.strip()[:60]
FailureKey(cmd) == Take(Strip(cmd), FailureKeyLength)

\* the test commands looked for before the build commands
FailureListTestFirst(last_command) ==
    IF ~TruthyStr(last_command) THEN ""
    ELSE IF ContainsAny(TestCommands, last_command) THEN "test_failures"
    ELSE IF ContainsAny(BuildCommands, last_command) THEN "build_failures"
    ELSE ""

\* lines 107-111: which list a failing observation goes to, "" for neither
FailureList(last_command) ==
    IF ~TruthyStr(last_command) THEN ""
    ELSE IF ContainsAny(BuildCommands, last_command) THEN "build_failures"
    ELSE IF ContainsAny(TestCommands, last_command) THEN "test_failures"
    ELSE ""

\* lines 84-85: the command is an exploration of the CompCert sources
IsWaste(cmd) == ContainsAny(WasteCommands, cmd) /\ ContainsAny(WasteTargets, cmd)

\* the command state taken from an action of any subtype
FailuresActionAnyKind(s, name, i, event) ==
    LET action == Get(event.data, "action", EmptyDict)
        cmd == Get(action, "command", <<>>)
    IN  [s EXCEPT !.last_command = cmd,
                  !.last_action_idx = i,
                  !.command_attempts = CountUp(@, FailureKey(cmd)),
                  !.result.exploration_waste =
                      IF IsWaste(cmd)
                      THEN Append(@, [file |-> name,
                                      command |-> Take(cmd, FailureCommandLength),
                                      category |-> KwExploringCompcertCoq])
                      ELSE @]

\* lines 70-90: an ActionEvent at index i of file name; s is the record of locals
FailuresAction(s, name, i, event) ==
    LET action == Get(event.data, "action", EmptyDict)
        action_kind == Get(action, "kind", <<>>)
        cmd == Get(action, "command", <<>>)
    IN  IF action_kind = KwTerminalAction
        THEN [s EXCEPT !.last_command = cmd,
                       !.last_action_idx = i,
                       !.command_attempts = CountUp(@, FailureKey(cmd)),
                       !.result.exploration_waste =
                           IF IsWaste(cmd)
                           THEN Append(@, [file |-> name,
                                           command |-> Take(cmd, FailureCommandLength),
                                           category |-> KwExploringCompcertCoq])
                           ELSE @]
        ELSE s

\* lines 100-105
FailureInfo(name, obs, last_command) ==
    [file |-> name,
     exit_code |-> obs.exit_code,
     command |-> IF TruthyStr(last_command)
                 THEN Take(last_command, FailureCommandLength) ELSE KwUnknown,
     output_preview |-> Take(Get(obs, "output", <<>>), FailurePreview)]

\* lines 92-111: an ObservationEvent; failure_infos keeps, in order, the
\* values the local failure_info took in the file
FailuresObservation(s, name, event) ==
    LET obs == Get(event.data, "observation", Obs(EmptyDict))
        list == FailureList(s.last_command)
        t == IF IsDict(obs) /\ IsFailing(obs)
             THEN [s EXCEPT !.failure_infos =
                                Append(@, FailureInfo(name, obs, s.last_command))]
             ELSE s
    IN  IF IsDict(obs) /\ IsFailing(obs) /\ list # ""
        THEN [t EXCEPT !.result[list] = Append(@, FailureInfo(name, obs, s.last_command))]
        ELSE t

\* lines 69-111: one pass of the loop body
FailuresAfterEvent(s, name, i, event) ==
    IF event.kind = KwActionEvent THEN FailuresAction(s, name, i, event)
    ELSE IF event.kind = KwObservationEvent THEN FailuresObservation(s, name, event)
    ELSE s

\* lines 114-120: the retry loops of one file
RECURSIVE RetryLoops(_, _)
RetryLoops(name, attempts) ==
    IF attempts = <<>> THEN <<>>
    ELSE IF Head(attempts).count >= RetryThreshold
         THEN <<[file |-> name, command |-> Head(attempts).command,
                 count |-> Head(attempts).count]>> \o RetryLoops(name, Tail(attempts))
         ELSE RetryLoops(name, Tail(attempts))

\* lines 136-140: the error lines printed for a build failure
ErrorLines(output_preview) ==
    IF Contains(KwError, Lower(output_preview))
    THEN LET lines == SplitLines(output_preview)
             hits == SelectSeqIn(lines, {l \in {lines[i] : i \in DOMAIN lines} :
                                             Contains(KwError, Lower(l))})
         IN  [i \in 1..Min(ReportedErrorLines, Len(hits)) |->
                 Take(hits[i], ReportedErrorLength)]
    ELSE <<>>

\* lines 154-160: the records of each category, categories in first-seen order
RECURSIVE ByCategory(_, _)
ByCategory(waste, groups) ==
    IF waste = <<>> THEN groups
    ELSE LET e == Head(waste) IN
         ByCategory(Tail(waste),
            IF \E i \in DOMAIN groups : groups[i].category = e.category
            THEN [i \in DOMAIN groups |->
                    IF groups[i].category = e.category
                    THEN [groups[i] EXCEPT !.items = Append(@, e)] ELSE groups[i]]
            ELSE Append(groups, [category |-> e.category, items |-> <<e>>]))

\* lines 130-160: what main prints
FailureReport(r) ==
    [build_count |-> Len(r.build_failures),
     build |-> [i \in 1..Min(ReportedFailures, Len(r.build_failures)) |->
                  LET f == r.build_failures[i] IN
                  [file |-> f.file, exit_code |-> f.exit_code,
                   cmd |-> Take(f.command, ReportedCommandLength),
                   err |-> ErrorLines(f.output_preview)]],
     test_count |-> Len(r.test_failures),
     test |-> [i \in 1..Min(ReportedFailures, Len(r.test_failures)) |->
                  LET f == r.test_failures[i] IN
                  [file |-> f.file, exit_code |-> f.exit_code,
                   cmd |-> Take(f.command, ReportedCommandLength)]],
     retry_count |-> Len(r.retry_loops),
     retry |-> LET sorted == SortedByCount(r.retry_loops) IN
               [i \in 1..Min(ReportedRetryLoops, Len(sorted)) |->
                  [count |-> sorted[i].count, file |-> sorted[i].file,
                   command |-> Take(sorted[i].command, ReportedRetryLength)]],
     waste_count |-> Len(r.exploration_waste),
     waste |-> LET groups == ByCategory(r.exploration_waste, <<>>) IN
               [g \in DOMAIN groups |->
                  [category |-> groups[g].category,
                   occurrences |-> Len(groups[g].items),
                   items |-> [i \in 1..Min(ReportedWasteItems, Len(groups[g].items)) |->
                                Take(groups[g].items[i].command, ReportedRetryLength)]]]]

(***************************************************************************)
(* Timestamps: datetime.fromisoformat(ts.replace('Z', '+00:00')), the      *)
(* difference of two datetimes and datetime.isoformat().  The forms read   *)
(* are YYYY-MM-DDTHH:MM:SS and the same followed by +HH:MM or -HH:MM; a    *)
(* text of another form is taken as one fromisoformat rejects.             *)
(* A datetime is [ok, aware, local, offset]: local the seconds of its      *)
(* calendar fields since 1970-01-01T00:00:00, offset its UTC offset.       *)
(***************************************************************************)
Digits == <<"0","1","2","3","4","5","6","7","8","9">>
IsDigit(c) == \E i \in DOMAIN Digits : Digits[i] = c
DigitVal(c) == (CHOOSE i \in DOMAIN Digits : Digits[i] = c) - 1

\* the number written by the digits s, -1 when s is not all digits
RECURSIVE Number(_, _)
Number(s, acc) ==
    IF s = <<>> THEN acc
    ELSE IF IsDigit(Head(s)) THEN Number(Tail(s), 10 * acc + DigitVal(Head(s)))
    ELSE -1

\* n written with at least width digits
RECURSIVE Pad(_, _)
Pad(n, width) ==
    IF n < 10 /\ width <= 1 THEN <<Digits[n + 1]>>
    ELSE Pad(n \div 10, width - 1) \o <<Digits[(n % 10) + 1]>>

\* ts.replace('Z', '+00:00')
RECURSIVE ReplaceZ(_)
ReplaceZ(s) ==
    IF s = <<>> THEN <<>>
    ELSE (IF Head(s) = "Z" THEN KwUtcOffset ELSE <<Head(s)>>) \o ReplaceZ(Tail(s))

IsLeap(y) == (y % 4 = 0 /\ y % 100 # 0) \/ y % 400 = 0

DaysInMonth(y, m) ==
    IF m = 2 THEN (IF IsLeap(y) THEN 29 ELSE 28)
    ELSE IF m \in {4, 6, 9, 11} THEN 30 ELSE 31

\* days from 1970-01-01 to y-m-d
DaysFromCivil(y, m, d) ==
    LET yy == IF m <= 2 THEN y - 1 ELSE y
        era == yy \div 400
        yoe == yy - era * 400
        doy == (153 * (IF m > 2 THEN m - 3 ELSE m + 9) + 2) \div 5 + d - 1
        doe == yoe * 365 + yoe \div 4 - yoe \div 100 + doy
    IN  era * 146097 + doe - 719468

\* the calendar date of a day number
CivilFromDays(days) ==
    LET z == days + 719468
        era == z \div 146097
        doe == z - era * 146097
        yoe == (doe - doe \div 1460 + doe \div 36524 - doe \div 146096) \div 365
        doy == doe - (365 * yoe + yoe \div 4 - yoe \div 100)
        mp == (5 * doy + 2) \div 153
        m == IF mp < 10 THEN mp + 3 ELSE mp - 9
    IN  [year |-> yoe + era * 400 + (IF m <= 2 THEN 1 ELSE 0),
         month |-> m,
         day |-> doy - (153 * mp + 2) \div 5 + 1]

NoTime == [ok |-> FALSE, aware |-> FALSE, local |-> 0, offset |-> 0]

FromIsoFormat(s) ==
    IF Len(s) \notin {19, 25} THEN NoTime
    ELSE LET y == Number(SubSeq(s, 1, 4), 0)
             mo == Number(SubSeq(s, 6, 7), 0)
             d == Number(SubSeq(s, 9, 10), 0)
             h == Number(SubSeq(s, 12, 13), 0)
             mi == Number(SubSeq(s, 15, 16), 0)
             sec == Number(SubSeq(s, 18, 19), 0)
             aware == Len(s) = 25
             oh == IF aware THEN Number(SubSeq(s, 21, 22), 0) ELSE 0
             om == IF aware THEN Number(SubSeq(s, 24, 25), 0) ELSE 0
             shape == /\ s[5] = "-" /\ s[8] = "-" /\ s[11] \in {"T", " "}
                      /\ s[14] = ":" /\ s[17] = ":"
                      /\ aware => (s[20] \in {"+", "-"} /\ s[23] = ":")
             fields == /\ y >= 1 /\ mo \in 1..12 /\ d >= 1 /\ d <= DaysInMonth(y, mo)
                       /\ h \in 0..23 /\ mi \in 0..59 /\ sec \in 0..59
                       /\ oh \in 0..23 /\ om \in 0..59
         IN  IF shape /\ fields
             THEN [ok |-> TRUE, aware |-> aware,
                   local |-> DaysFromCivil(y, mo, d) * 86400 + h * 3600 + mi * 60 + sec,
                   offset |-> IF aware
                              THEN (IF s[20] = "-" THEN -1 ELSE 1) * (oh * 3600 + om * 60)
                              ELSE 0]
             ELSE NoTime

\* parse_timestamp: None (NoTime) when fromisoformat raises
parse_timestamp(ts) == FromIsoFormat(ReplaceZ(ts))

\* ts = parse_timestamp(event.timestamp) if event.timestamp else None
EventTime(event) ==
    IF TruthyStr(event.timestamp) THEN parse_timestamp(event.timestamp) ELSE NoTime

\* a - b raises TypeError when one is aware and the other naive
DiffRaises(a, b) == a.aware # b.aware

\* (a - b).total_seconds()
TotalSeconds(a, b) == (a.local - a.offset) - (b.local - b.offset)

\* dt.isoformat()
IsoFormat(dt) ==
    LET date == CivilFromDays(dt.local \div 86400)
        sod == dt.local % 86400
        off == IF dt.offset < 0 THEN -dt.offset ELSE dt.offset
    IN  Pad(date.year, 4) \o <<"-">> \o Pad(date.month, 2) \o <<"-">> \o Pad(date.day, 2)
        \o <<"T">> \o Pad(sod \div 3600, 2) \o <<":">> \o Pad((sod % 3600) \div 60, 2)
        \o <<":">> \o Pad(sod % 60, 2)
        \o (IF dt.aware
            THEN <<IF dt.offset < 0 THEN "-" ELSE "+">> \o Pad(off \div 3600, 2)
                 \o <<":">> \o Pad((off % 3600) \div 60, 2)
            ELSE <<>>)

(***************************************************************************)
(* timing_analysis.py                                                      *)
(***************************************************************************)
SlowAggregate == 10

\* a loop body that keeps the pending action after it gave a sample
TimingAfterEventKeepsPending(s, event) ==
    LET ts == EventTime(event) IN
    IF event.kind = KwActionEvent
    THEN [s EXCEPT !.last_action_time = ts,
                   !.last_action_type =
                       Get(Get(event.data, "action", EmptyDict), "kind", <<>>)]
    ELSE IF event.kind = KwObservationEvent /\ s.last_action_time.ok /\ ts.ok
    THEN IF DiffRaises(ts, s.last_action_time)
         THEN [s EXCEPT !.pc = "raised"]
         ELSE [s EXCEPT !.action_times =
                            Append(@, [action |-> s.last_action_type,
                                       duration |-> TotalSeconds(ts, s.last_action_time),
                                       timestamp |-> IsoFormat(s.last_action_time)])]
    ELSE s

\* lines 62-78: one pass of the loop body of analyze_timing
TimingAfterEvent(s, event) ==
    LET ts == EventTime(event) IN
    IF event.kind = KwActionEvent
    THEN [s EXCEPT !.last_action_time = ts,
                   !.last_action_type =
                       Get(Get(event.data, "action", EmptyDict), "kind", <<>>)]
    ELSE IF event.kind = KwObservationEvent /\ s.last_action_time.ok /\ ts.ok
    THEN IF DiffRaises(ts, s.last_action_time)
         THEN [s EXCEPT !.pc = "raised"]
         ELSE [s EXCEPT !.action_times =
                            Append(@, [action |-> s.last_action_type,
                                       duration |-> TotalSeconds(ts, s.last_action_time),
                                       timestamp |-> IsoFormat(s.last_action_time)]),
                        !.last_action_time = NoTime]
    ELSE s

RECURSIVE Sum(_)
Sum(seq) == IF seq = <<>> THEN 0 ELSE Head(seq) + Sum(Tail(seq))

Max(seq) == CHOOSE x \in {seq[i] : i \in DOMAIN seq} : \A i \in DOMAIN seq : seq[i] <= x

Durations(times) == [i \in DOMAIN times |-> times[i].duration]

\* lines 100-101: all_times[t["action"]].append(t["duration"]), a
\* defaultdict(list) as its items in insertion order
RECURSIVE AddTimes(_, _)
AddTimes(all_times, times) ==
    IF times = <<>> THEN all_times
    ELSE LET t == Head(times) IN
         AddTimes(IF \E i \in DOMAIN all_times : all_times[i].action = t.action
                  THEN [i \in DOMAIN all_times |->
                          IF all_times[i].action = t.action
                          THEN [all_times[i] EXCEPT !.durations = Append(@, t.duration)]
                          ELSE all_times[i]]
                  ELSE Append(all_times, [action |-> t.action, durations |-> <<t.duration>>]),
                  Tail(times))

\* lines 91-101: main after analyze_timing returned times for file name
TimingCollect(s, name, times) ==
    IF times = <<>> THEN s
    ELSE [s EXCEPT !.total_by_file =
                       Append(@, [name |-> name,
                                  total_seconds |-> Sum(Durations(times)),
                                  action_count |-> Len(times)]),
                   !.all_times = AddTimes(@, times)]

ActionBefore(x, y) == StrLess(x.action, y.action)

\* lines 103-124: what main prints; the minutes printed are total_seconds / 60
\* and the average printed is total / count
TimingReport(s) ==
    [sessions |-> SortBy(NameBefore, s.total_by_file, <<>>),
     actions |-> LET sorted == SortBy(ActionBefore, s.all_times, <<>>) IN
                 [i \in DOMAIN sorted |->
                    LET d == sorted[i].durations IN
                    [action |-> sorted[i].action,
                     count |-> Len(d),
                     total |-> Sum(d),
                     max |-> Max(d),
                     slow |-> Cardinality({j \in DOMAIN d : d[j] > SlowAggregate})]]]

(***************************************************************************)
(* slow_commands.py                                                        *)
(***************************************************************************)
DefaultThreshold == 5
SlowOutputPreview == 500
ReportedSlow == 20
ReportedSlowCommand == 100
ReportedSlowLines == 5
ReportedSlowLine == 80

\* lines 62-88: one pass of the loop body; last_action None is the empty dict
\* a threshold that is itself slow: >= in place of >
IsSlowFromThreshold(duration, limit) == duration >= limit

\* line 76: if duration > threshold
IsSlow(duration, limit) == duration > limit

SlowAfterEvent(s, name, event, limit) ==
    LET ts == EventTime(event) IN
    IF event.kind = KwActionEvent
    THEN LET action == Get(event.data, "action", EmptyDict) IN
         IF "kind" \in DOMAIN action /\ action.kind = KwTerminalAction
         THEN [s EXCEPT !.last_action = action,
                        !.last_action_time = ts,
                        !.last_command = Get(action, "command", <<>>)]
         ELSE [s EXCEPT !.last_action = EmptyDict]
    ELSE IF /\ event.kind = KwObservationEvent
            /\ DOMAIN s.last_action # {}
            /\ s.last_action_time.ok
            /\ ts.ok
    THEN IF DiffRaises(ts, s.last_action_time)
         THEN [s EXCEPT !.pc = "raised"]
         ELSE LET duration == TotalSeconds(ts, s.last_action_time)
                  obs == Get(event.data, "observation", Obs(EmptyDict))
              IN  [s EXCEPT !.slow_commands =
                                IF IsSlow(duration, limit)
                                THEN Append(@,
                                       [file |-> name,
                                        command |-> s.last_command,
                                        duration |-> duration,
                                        exit_code |-> IF IsDict(obs) /\ "exit_code" \in DOMAIN obs
                                                      THEN obs.exit_code ELSE None,
                                        output_preview |->
                                            IF IsDict(obs)
                                            THEN Take(Get(obs, "output", <<>>), SlowOutputPreview)
                                            ELSE <<>>])
                                ELSE @,
                            !.last_action = EmptyDict]
    ELSE s

\* key=lambda x: -x["duration"]
DurationBefore(x, y) == x.duration > y.duration

\* lines 97-111: what main prints
SlowReport(slow_commands) ==
    LET sorted == SortBy(DurationBefore, slow_commands, <<>>) IN
    [total |-> Len(sorted),
     commands |-> [i \in 1..Min(ReportedSlow, Len(sorted)) |->
                     LET c == sorted[i]
                         lines == SplitLines(c.output_preview)
                     IN  [file |-> c.file, duration |-> c.duration,
                          exit_code |-> c.exit_code,
                          command |-> Take(c.command, ReportedSlowCommand),
                          lines |-> IF c.output_preview = <<>> THEN <<>>
                                    ELSE [j \in 1..Min(ReportedSlowLines, Len(lines)) |->
                                            Take(lines[j], ReportedSlowLine)]]]]

(***************************************************************************)
(* analyze_session.py: main, and the steps of analyze_session.             *)
(***************************************************************************)
SessionReportedFailed == 5
SessionReportedRepeated == 5
SessionReportedLong == 3
SessionReportedLength == 60
SessionReportedPreview == 50
SessionReportedContext == 150

\* lines 182-214: what main prints
SessionReport(a) ==
    [time |-> <<a.start_time, a.end_time>>,
     total |-> a.total_events, messages |-> a.message_count,
     actions |-> a.action_count, observations |-> a.observation_count,
     terminal |-> a.terminal_actions, file_editor |-> a.file_editor_actions,
     container |-> a.container_actions, other |-> a.other_actions,
     task_context |-> Take(a.task_context, SessionReportedContext),
     failed_count |-> Len(a.failed_commands),
     failed |-> [i \in 1..Min(SessionReportedFailed, Len(a.failed_commands)) |->
                   [exit_code |-> a.failed_commands[i].exit_code,
                    output |-> Take(a.failed_commands[i].output_preview,
                                    SessionReportedLength)]],
     repeated |-> LET sorted == SortedByCount(a.repeated_commands) IN
                  [i \in 1..Min(SessionReportedRepeated, Len(sorted)) |->
                     [count |-> sorted[i].count,
                      command |-> Take(sorted[i].command, SessionReportedLength)]],
     long_count |-> Len(a.long_outputs),
     long |-> [i \in 1..Min(SessionReportedLong, Len(a.long_outputs)) |->
                 [length |-> a.long_outputs[i].length,
                  preview |-> Take(a.long_outputs[i].preview, SessionReportedPreview)]],
     exploration_count |-> Len(a.exploration_actions)]

\* the file named by sys.argv[1]
ArgFile == logDir[1]

\* lines 84-89: the analysis is made, the events are read
SessionLoad ==
    /\ session.pc = "start"
    /\ LET evs == ParsedEvents("analyze_session", ArgFile.blocks) IN
       session' = [pc |-> "loop", events |-> evs, i |-> 1,
                   command_history |-> <<>>, file_views |-> <<>>,
                   analysis |-> [SessionAnalysis(ArgFile.name) EXCEPT
                                    !.total_events = Len(evs)]]
    /\ UNCHANGED <<parserVars, logDir, threshold, reasoning, hans, failures, timing, slow>>

\* lines 91-158: the loop body on the next event
SessionEvent ==
    /\ session.pc = "loop"
    /\ session.i <= Len(session.events)
    /\ session' = [SessionAfterEvent(session, session.events[session.i])
                      EXCEPT !.i = session.i + 1]
    /\ UNCHANGED <<parserVars, logDir, threshold, reasoning, hans, failures, timing, slow>>

\* lines 160-171: the repeated commands, and return
SessionDetect ==
    /\ session.pc = "loop"
    /\ session.i > Len(session.events)
    /\ session' = [session EXCEPT
                      !.pc = "returned",
                      !.analysis.repeated_commands =
                          RepeatedCommands(session.command_history)]
    /\ UNCHANGED <<parserVars, logDir, threshold, reasoning, hans, failures, timing, slow>>

\* lines 180-214: main prints the analysis
SessionPrint ==
    /\ session.pc = "returned"
    /\ session' = [pc |-> "done", analysis |-> session.analysis,
                   command_history |-> session.command_history,
                   report |-> SessionReport(session.analysis)]
    /\ UNCHANGED <<parserVars, logDir, threshold, reasoning, hans, failures, timing, slow>>

SessionNext == SessionLoad \/ SessionEvent \/ SessionDetect \/ SessionPrint

(***************************************************************************)
(* failure_patterns.py: main, and the steps of extract_failures.           *)
(***************************************************************************)
\* lines 54-62: the result is made, the files are listed and sorted
FailuresStart ==
    /\ failures.pc = "start"
    /\ failures' = [pc |-> "files", files |-> SortedFiles(logDir), f |-> 1,
                    result |-> NoFailures]
    /\ UNCHANGED <<parserVars, logDir, threshold, reasoning, hans, session, timing, slow>>

\* the command state of the file before carried into the next file
FailuresOpenFileKeepsState ==
    /\ failures.pc = "files"
    /\ failures.f <= Len(failures.files)
    /\ failures' = [pc |-> "loop", files |-> failures.files, f |-> failures.f,
                    result |-> failures.result,
                    events |-> ParsedEvents("failure_patterns",
                                            failures.files[failures.f].blocks),
                    i |-> 1,
                    last_command |-> IF failures.f = 1 THEN None
                                     ELSE failures.last_command,
                    last_action_idx |-> -1,
                    command_attempts |-> IF failures.f = 1 THEN <<>>
                                         ELSE failures.command_attempts,
                    failure_infos |-> <<>>]
    /\ UNCHANGED <<parserVars, logDir, threshold, reasoning, hans, session, timing, slow>>

\* lines 62-67: the next file is read, the state of the file is reset
FailuresOpenFile ==
    /\ failures.pc = "files"
    /\ failures.f <= Len(failures.files)
    /\ failures' = [pc |-> "loop", files |-> failures.files, f |-> failures.f,
                    result |-> failures.result,
                    events |-> ParsedEvents("failure_patterns",
                                            failures.files[failures.f].blocks),
                    i |-> 1, last_command |-> None, last_action_idx |-> -1,
                    command_attempts |-> <<>>, failure_infos |-> <<>>]
    /\ UNCHANGED <<parserVars, logDir, threshold, reasoning, hans, session, timing, slow>>

\* lines 69-111: the loop body on the next event (enumerate counts from 0)
FailuresEvent ==
    /\ failures.pc = "loop"
    /\ failures.i <= Len(failures.events)
    /\ failures' = [FailuresAfterEvent(failures, failures.files[failures.f].name,
                                       failures.i - 1, failures.events[failures.i])
                        EXCEPT !.i = failures.i + 1]
    /\ UNCHANGED <<parserVars, logDir, threshold, reasoning, hans, session, timing, slow>>

\* lines 113-120: the retry loops of the file
FailuresEndFile ==
    /\ failures.pc = "loop"
    /\ failures.i > Len(failures.events)
    /\ failures' = [failures EXCEPT
                       !.pc = "files",
                       !.f = failures.f + 1,
                       !.result.retry_loops =
                           @ \o RetryLoops(failures.files[failures.f].name,
                                           failures.command_attempts)]
    /\ UNCHANGED <<parserVars, logDir, threshold, reasoning, hans, session, timing, slow>>

\* lines 122-160: extract_failures returns, main prints
FailuresPrint ==
    /\ failures.pc = "files"
    /\ failures.f > Len(failures.files)
    /\ failures' = [pc |-> "done", files |-> failures.files,
                    result |-> failures.result,
                    report |-> FailureReport(failures.result)]
    /\ UNCHANGED <<parserVars, logDir, threshold, reasoning, hans, session, timing, slow>>

FailuresNext ==
    FailuresStart \/ FailuresOpenFile \/ FailuresEvent \/ FailuresEndFile \/ FailuresPrint

(***************************************************************************)
(* timing_analysis.py: main, and the steps of analyze_timing.              *)
(***************************************************************************)
\* lines 84-89: the files are listed and sorted
TimingStart ==
    /\ timing.pc = "start"
    /\ timing' = [pc |-> "files", files |-> SortedFiles(logDir), f |-> 1,
                  all_times |-> <<>>, total_by_file |-> <<>>, returned |-> <<>>]
    /\ UNCHANGED <<parserVars, logDir, threshold, reasoning, hans, session, failures, slow>>

\* lines 55-60: analyze_timing is called on the next file
TimingOpenFile ==
    /\ timing.pc = "files"
    /\ timing.f <= Len(timing.files)
    /\ timing' = [pc |-> "loop", files |-> timing.files, f |-> timing.f,
                  all_times |-> timing.all_times,
                  total_by_file |-> timing.total_by_file,
                  returned |-> timing.returned,
                  events |-> ParsedEvents("timing_analysis", timing.files[timing.f].blocks),
                  i |-> 1, action_times |-> <<>>,
                  last_action_time |-> NoTime, last_action_type |-> None]
    /\ UNCHANGED <<parserVars, logDir, threshold, reasoning, hans, session, failures, slow>>

\* lines 62-78: the loop body on the next event; a TypeError ends the script
TimingEvent ==
    /\ timing.pc = "loop"
    /\ timing.i <= Len(timing.events)
    /\ timing' = [TimingAfterEvent(timing, timing.events[timing.i])
                     EXCEPT !.i = timing.i + 1]
    /\ UNCHANGED <<parserVars, logDir, threshold, reasoning, hans, session, failures, slow>>

\* lines 80, 90-101: analyze_timing returns, main keeps the totals
TimingReturn ==
    /\ timing.pc = "loop"
    /\ timing.i > Len(timing.events)
    /\ timing' = [TimingCollect(timing, timing.files[timing.f].name, timing.action_times)
                     EXCEPT !.pc = "files",
                            !.f = timing.f + 1,
                            !.returned = Append(@, timing.action_times)]
    /\ UNCHANGED <<parserVars, logDir, threshold, reasoning, hans, session, failures, slow>>

\* lines 103-124: main prints
TimingPrint ==
    /\ timing.pc = "files"
    /\ timing.f > Len(timing.files)
    /\ timing' = [pc |-> "done", files |-> timing.files,
                  all_times |-> timing.all_times,
                  total_by_file |-> timing.total_by_file,
                  returned |-> timing.returned,
                  report |-> TimingReport(timing)]
    /\ UNCHANGED <<parserVars, logDir, threshold, reasoning, hans, session, failures, slow>>

TimingNext == TimingStart \/ TimingOpenFile \/ TimingEvent \/ TimingReturn \/ TimingPrint

(***************************************************************************)
(* slow_commands.py: main, and the steps of find_slow_commands.            *)
(***************************************************************************)
\* lines 53-55: the files are listed and sorted
SlowStart ==
    /\ slow.pc = "start"
    /\ slow' = [pc |-> "files", files |-> SortedFiles(logDir), f |-> 1,
                slow_commands |-> <<>>]
    /\ UNCHANGED <<parserVars, logDir, threshold, reasoning, hans, session, failures, timing>>

\* lines 56-60: the next file is read, the state of the file is reset
SlowOpenFile ==
    /\ slow.pc = "files"
    /\ slow.f <= Len(slow.files)
    /\ slow' = [pc |-> "loop", files |-> slow.files, f |-> slow.f,
                slow_commands |-> slow.slow_commands,
                events |-> ParsedEvents("slow_commands", slow.files[slow.f].blocks),
                i |-> 1, last_action |-> EmptyDict,
                last_action_time |-> NoTime, last_command |-> None]
    /\ UNCHANGED <<parserVars, logDir, threshold, reasoning, hans, session, failures, timing>>

\* lines 62-88: the loop body on the next event; a TypeError ends the script
SlowEvent ==
    /\ slow.pc = "loop"
    /\ slow.i <= Len(slow.events)
    /\ slow' = [SlowAfterEvent(slow, slow.files[slow.f].name, slow.events[slow.i], threshold)
                   EXCEPT !.i = slow.i + 1]
    /\ UNCHANGED <<parserVars, logDir, threshold, reasoning, hans, session, failures, timing>>

\* the events of the file are exhausted
SlowEndFile ==
    /\ slow.pc = "loop"
    /\ slow.i > Len(slow.events)
    /\ slow' = [slow EXCEPT !.pc = "files", !.f = slow.f + 1]
    /\ UNCHANGED <<parserVars, logDir, threshold, reasoning, hans, session, failures, timing>>

\* lines 90, 97-111: find_slow_commands returns, main sorts and prints
SlowPrint ==
    /\ slow.pc = "files"
    /\ slow.f > Len(slow.files)
    /\ slow' = [pc |-> "done", files |-> slow.files,
                slow_commands |-> slow.slow_commands,
                report |-> SlowReport(slow.slow_commands)]
    /\ UNCHANGED <<parserVars, logDir, threshold, reasoning, hans, session, failures, timing>>

SlowNext == SlowStart \/ SlowOpenFile \/ SlowEvent \/ SlowEndFile \/ SlowPrint

(***************************************************************************)
(* Generated logs of the analyses.                                         *)
(***************************************************************************)
NameA == <<"a",".","l","o","g">>
NameB == <<"b",".","l","o","g">>
CmdLs == <<"l","s"," ","s","r","c","/">>
CmdMakeTest == <<"m","a","k","e"," ","t","e","s","t">>
CmdMakeTestSpaced == <<" "," ","m","a","k","e"," ","t","e","s","t","\n">>
CmdMakeBuild == <<"m","a","k","e"," ","b","u","i","l","d">>
CmdGoBuild == <<"g","o"," ","b","u","i","l","d"," ",".","/",".",".",".">>
CmdGoTest == <<"g","o"," ","t","e","s","t"," ",".","/",".",".",".">>
CmdMakeCheck == <<"m","a","k","e"," ","c","h","e","c","k">>
CmdEcho == <<"e","c","h","o"," ","h","i">>
CmdBuildThenTest == <<"m","a","k","e"," ","b","u","i","l","d"," ","&","&"," ","m","a","k","e"," ","t","e","s","t">>
CmdCatPrefix == <<"c","a","t"," ">>
CmdTestPrefix == <<"m","a","k","e"," ","t","e","s","t"," ">>
OutFail == <<"F","A","I","L",":"," ","t","e","s","t","_","x">>
OutError == <<"e","r","r","o","r",":"," ","u","n","d","e","f","i","n","e","d"," ","s","y","m","b","o","l"," ","f","o","o","\n","l","i","n","k","i","n","g","\n","m","a","k","e",":"," ","E","r","r","o","r"," ","2","\n","e","r","r","o","r",":"," ","a","g","a","i","n">>
KindContainer == <<"D","o","c","k","e","r","C","o","n","t","a","i","n","e","r","A","c","t","i","o","n">>
KindThink == <<"T","h","i","n","k","A","c","t","i","o","n">>
KindSystemPrompt == <<"S","y","s","t","e","m","P","r","o","m","p","t","E","v","e","n","t">>
PathMain == <<"m","a","i","n",".","g","o">>
TextPlan == <<"R","e","a","d"," ","P","L","A","N",".","m","d"," ","a","n","d"," ","g","o"," ","o","n">>
TsNaive == <<"2","0","2","5","-","0","1","-","0","2","T","0","0",":","0","1",":","0","5">>
TsGarbage == <<"y","e","s","t","e","r","d","a","y">>
TsFive == <<"2","0","2","5","-","0","1","-","0","2","T","0","0",":","0","1",":","0","3","Z">>
TsTen == <<"2","0","2","5","-","0","1","-","0","2","T","0","0",":","0","1",":","0","8","Z">>

\* commands of 65 characters that agree on their first 60, and on no more
CmdLongA == CmdTestPrefix \o Rep("x", 50) \o Rep("a", 5)
CmdLongB == CmdTestPrefix \o Rep("x", 50) \o Rep("b", 5)
\* an exploration command of 120 characters
CmdCatLong == CmdCatPrefix \o Rep("f", 116)
\* outputs of 5000 and of 5001 characters
OutAtLimit == Rep("x", 5000)
OutLong == Rep("y", 5001)

\* the directories of one file a.log of at most MaxEvents blocks of pool
OneFileDirs(pool) ==
    {<<[name |-> NameA, blocks |-> b]>> : b \in UNION {[1..n -> pool] : n \in 0..MaxEvents}}

Idle == [pc |-> "idle"]
Ready == [pc |-> "start"]

AnalysisIdle ==
    /\ logDir = <<>>
    /\ threshold = DefaultThreshold
    /\ session = Idle
    /\ failures = Idle
    /\ timing = Idle
    /\ slow = Idle
    /\ reasoning = Idle
    /\ hans = Idle

(***************************************************************************)
(* Spec: parse_log_file on a generated file.                               *)
(***************************************************************************)
Init == ParserInit /\ AnalysisIdle

Next == ReadText \/ YieldDecoded \/ YieldDegraded \/ DropBlock \/ Finish

Spec == Init /\ [][Next]_vars

(***************************************************************************)
(* SpecSession: analyze_session on sessions of commands and observations.  *)
(***************************************************************************)
SessionPool ==
    {ActionBlock(TsOne, Terminal(CmdLs)),
     ActionBlock(TsOne, Terminal(CmdMakeTest)),
     ActionBlock(None, Terminal(CmdEcho)),
     ActionBlock(None, Terminal(CmdCatLong)),
     ActionBlock(None, FileEditor(KwView, PathMain)),
     ObservationBlock(TsTwo, Obs([exit_code |-> 0])),
     ObservationBlock(TsTwo, Obs([exit_code |-> 1, output |-> OutFail]))}

SessionInit ==
    /\ ParserIdle
    /\ logDir \in OneFileDirs(SessionPool)
    /\ threshold = DefaultThreshold
    /\ session = Ready
    /\ failures = Idle
    /\ timing = Idle
    /\ slow = Idle
    /\ reasoning = Idle
    /\ hans = Idle

SpecSession == SessionInit /\ [][SessionNext]_vars

(***************************************************************************)
(* SpecSubtypes: analyze_session on events of every kind and subtype.      *)
(***************************************************************************)
SubtypePool ==
    {ActionBlock(None, Terminal(CmdLs)),
     ActionBlock(None, FileEditor(KwView, PathMain)),
     ActionBlock(None, [kind |-> KindContainer]),
     ActionBlock(None, [kind |-> KindThink]),
     PlainBlock(KwActionEvent, TsOne),
     BadBlock(KwActionEvent, None, 40),
     GoodBlock(EventData(KwMessageEvent, None,
                         "llm_message" :> [content |-> <<[text |-> TextPlan]>>])),
     PlainBlock(KindSystemPrompt, None),
     ObservationBlock(None, NotADict)}

SubtypeInit ==
    /\ ParserIdle
    /\ logDir \in OneFileDirs(SubtypePool)
    /\ threshold = DefaultThreshold
    /\ session = Ready
    /\ failures = Idle
    /\ timing = Idle
    /\ slow = Idle
    /\ reasoning = Idle
    /\ hans = Idle

SpecSubtypes == SubtypeInit /\ [][SessionNext]_vars

(***************************************************************************)
(* SpecObservations: analyze_session on observations of every shape.       *)
(***************************************************************************)
ObservationPool ==
    {ObservationBlock(None, Obs([exit_code |-> 1, output |-> OutLong])),
     ObservationBlock(None, Obs([exit_code |-> 0, output |-> OutLong])),
     ObservationBlock(None, Obs([exit_code |-> 2, output |-> OutAtLimit])),
     ObservationBlock(None, Obs([output |-> OutFail])),
     ObservationBlock(None, Obs([exit_code |-> 1])),
     ObservationBlock(None, NotADict)}

ObservationInit ==
    /\ ParserIdle
    /\ logDir \in OneFileDirs(ObservationPool)
    /\ threshold = DefaultThreshold
    /\ session = Ready
    /\ failures = Idle
    /\ timing = Idle
    /\ slow = Idle
    /\ reasoning = Idle
    /\ hans = Idle

SpecObservations == ObservationInit /\ [][SessionNext]_vars

(***************************************************************************)
(* SpecRepetition: analyze_session, then extract_failures, on the same     *)
(* session of Terminal commands.                                           *)
(***************************************************************************)
RepetitionPool ==
    {ActionBlock(None, Terminal(CmdMakeTest)),
     ActionBlock(None, Terminal(CmdMakeTestSpaced)),
     ActionBlock(None, Terminal(CmdLs)),
     ActionBlock(None, Terminal(CmdLongA)),
     ActionBlock(None, Terminal(CmdLongB))}

RepetitionInit ==
    /\ ParserIdle
    /\ logDir \in OneFileDirs(RepetitionPool)
    /\ threshold = DefaultThreshold
    /\ session = Ready
    /\ failures = Ready
    /\ timing = Idle
    /\ slow = Idle
    /\ reasoning = Idle
    /\ hans = Idle

RepetitionNext == SessionNext \/ (session.pc = "done" /\ FailuresNext)

SpecRepetition == RepetitionInit /\ [][RepetitionNext]_vars

(***************************************************************************)
(* SpecFailures: extract_failures and its main on build and test runs.     *)
(***************************************************************************)
FailurePool ==
    {ActionBlock(None, Terminal(CmdMakeBuild)),
     ActionBlock(None, Terminal(CmdGoBuild)),
     ActionBlock(None, Terminal(CmdMakeCheck)),
     ActionBlock(None, Terminal(CmdBuildThenTest)),
     ActionBlock(None, Terminal(CmdLs)),
     ActionBlock(None, FileEditor(KwView, PathMain)),
     ObservationBlock(None, Obs([exit_code |-> 1, output |-> OutError])),
     ObservationBlock(None, Obs([exit_code |-> 0, output |-> OutFail]))}

FailureInit ==
    /\ ParserIdle
    /\ logDir \in OneFileDirs(FailurePool)
    /\ threshold = DefaultThreshold
    /\ session = Idle
    /\ failures = Ready
    /\ timing = Idle
    /\ slow = Idle
    /\ reasoning = Idle
    /\ hans = Idle

SpecFailures == FailureInit /\ [][FailuresNext]_vars

(***************************************************************************)
(* SpecTiming: timing_analysis, then slow_commands, on the same directory. *)
(***************************************************************************)
TimingPool ==
    {ActionBlock(TsOne, Terminal(CmdMakeTest)),
     ActionBlock(TsOne, FileEditor(KwView, PathMain)),
     ObservationBlock(TsFive, Obs([exit_code |-> 0])),
     ObservationBlock(TsTwo, Obs([exit_code |-> 0, output |-> OutFail])),
     ObservationBlock(TsTen, Obs([exit_code |-> 1])),
     ObservationBlock(None, NotADict)}

\* the thresholds given on the command line
Thresholds == {DefaultThreshold, SlowAggregate}

TimingInit ==
    /\ ParserIdle
    /\ logDir \in OneFileDirs(TimingPool)
    /\ threshold \in Thresholds
    /\ session = Idle
    /\ failures = Idle
    /\ timing = Ready
    /\ slow = Ready
    /\ reasoning = Idle
    /\ hans = Idle

TimingSlowNext == TimingNext \/ (timing.pc \in {"done", "raised"} /\ SlowNext)

SpecTiming == TimingInit /\ [][TimingSlowNext]_vars

(***************************************************************************)
(* Claims about parse_log_file (Spec).                                     *)
(***************************************************************************)
\* the object written in a well-formed block of the generated files
BlockObject(seg) ==
    CASE seg = BlockAction -> [kind |-> KwActionEvent, timestamp |-> TsOne]
      [] seg = BlockObs -> [kind |-> KwObservationEvent, timestamp |-> TsTwo]
      [] seg = BlockNested -> [action |-> [kind |-> KwTerminalAction], kind |-> KwActionEvent]
      [] seg = BlockNoKind -> [timestamp |-> TsTwo]

\* the kind and the timestamp written at the top level of a malformed block
BlockKind(seg) == IF seg = BadWithKind THEN KwActionEvent ELSE KwObservationEvent
BlockTimestamp(seg) ==
    CASE seg = BadWithKind -> TsOne
      [] seg = Truncated -> TsTwo
      [] OTHER -> None

\* the segments of the file that are blocks of the set kinds, in file order
BlocksAmong(kinds) == SelectSeqIn(logFile, kinds)

\* the events a file of well-formed blocks is to give
ExpectedEvents ==
    LET good == BlocksAmong(GoodBlocks) IN
    [i \in DOMAIN good |->
        [kind |-> Get(BlockObject(good[i]), "kind", KwUnknown),
         timestamp |-> Get(BlockObject(good[i]), "timestamp", None),
         data |-> BlockObject(good[i])]]

\* the event yielded for the block whose marker is at position p, if any
EventsAt(p) == {k \in DOMAIN src : src[k] = p}

\* C1: a file of N well-formed blocks, with narration before, between or
\* after them, gives exactly N events, in block order, each with the kind
\* (or "unknown"), timestamp (or None) and decoded object of its block.
C1_WellFormedBlocksAllYielded ==
    (/\ pstate = "done"
     /\ copy = "parse_logs"
     /\ \A i \in DOMAIN logFile : logFile[i] \in GoodBlocks \cup {Narration})
    => events = ExpectedEvents

\* C2: a block that fails to decode and holds a kind gives exactly one event,
\* with the kind and timestamp of the block and a payload that is a parse
\* error marker, and the blocks after it are still parsed.
C2_MalformedBlockDegradesAlone ==
    (/\ pstate = "done"
     /\ copy \in DegradingCopies
     /\ \A i \in DOMAIN logFile : logFile[i] \in GoodBlocks \cup MalformedWithKind)
    => \A i \in DOMAIN logFile :
          /\ logFile[i] \in MalformedWithKind =>
                /\ Cardinality(EventsAt(SegStart(logFile, i))) = 1
                /\ \A k \in EventsAt(SegStart(logFile, i)) :
                      /\ events[k].kind = BlockKind(logFile[i])
                      /\ events[k].timestamp = BlockTimestamp(logFile[i])
                      /\ "_parse_error" \in DOMAIN events[k].data
                      /\ "kind" \notin DOMAIN events[k].data
          /\ logFile[i] \in GoodBlocks =>
                \E k \in EventsAt(SegStart(logFile, i)) :
                    events[k].data = BlockObject(logFile[i])

\* C3: a file with bytes that are not valid UTF-8 is parsed without raising:
\* the bytes are replaced by the placeholder and every block gives its event.
C3_InvalidBytesReplaced ==
    (/\ encoding = "utf-8"
     /\ copy = "parse_logs"
     /\ \E i \in DOMAIN logFile : logFile[i] = BadByteLine)
    => /\ pstate # "raised"
       /\ pstate \in {"scanning", "done"} =>
             /\ \A p \in DOMAIN content : content[p] \notin {"X", "Y"}
             /\ \E p \in DOMAIN content : content[p] = "?"

TheBlocks == logDir[1].blocks

\* the timestamps of the generated logs, in seconds after midnight
SecondsOfDay(ts) ==
    CASE ts = TsOne -> 58
      [] ts = TsFive -> 63
      [] ts = TsTwo -> 65
      [] ts = TsTen -> 68

IsTerminalBlock(b) ==
    /\ b.data.kind = KwActionEvent
    /\ b.data.action.kind = KwTerminalAction
    /\ "timestamp" \in DOMAIN b.data

IsTimedObservation(b) ==
    b.data.kind = KwObservationEvent /\ "timestamp" \in DOMAIN b.data

IsUntimedObservation(b) ==
    b.data.kind = KwObservationEvent /\ "timestamp" \notin DOMAIN b.data

\* the observation at j answers the Terminal command at i: nothing but
\* observations without a time lies between them
PairedWith(blks, i, j) ==
    /\ i < j
    /\ IsTerminalBlock(blks[i])
    /\ IsTimedObservation(blks[j])
    /\ \A k \in (i + 1)..(j - 1) : IsUntimedObservation(blks[k])

PairedObservations(blks) ==
    {j \in DOMAIN blks : \E i \in DOMAIN blks : PairedWith(blks, i, j)}

PairedDuration(blks, j) ==
    LET i == CHOOSE i \in DOMAIN blks : PairedWith(blks, i, j)
    IN  SecondsOfDay(blks[j].data.timestamp) - SecondsOfDay(blks[i].data.timestamp)

\* the n-th smallest member of a set of indices
NthOf(S, n) == CHOOSE j \in S : Cardinality({k \in S : k < j}) = n - 1

\* the log of the claim: a Terminal command and, 7 seconds later, its observation
SevenSecondLog ==
    <<ActionBlock(TsOne, Terminal(CmdMakeTest)),
      ObservationBlock(TsTwo, Obs([exit_code |-> 0, output |-> OutFail]))>>

\* C5: a Terminal action followed 7 s later by its observation gives exactly
\* one sample of analyze_timing, of type TerminalAction and duration 7; and
\* find_slow_commands reports a paired Terminal command if and only if its
\* duration is strictly greater than the threshold (7 s: reported at 5, not
\* at 10; a duration equal to the threshold is not reported).
C5_SevenSecondsSlowOnlyAboveThreshold ==
    /\ (TheBlocks = SevenSecondLog /\ timing.pc = "done") =>
          /\ timing.returned = <<<<[action |-> KwTerminalAction, duration |-> 7,
                                     timestamp |-> ReplaceZ(TsOne)]>>>>
          /\ timing.report.actions[1].slow = 0
    /\ slow.pc = "done" =>
          LET reported == {j \in PairedObservations(TheBlocks) :
                              PairedDuration(TheBlocks, j) > threshold}
          IN  /\ Len(slow.slow_commands) = Cardinality(reported)
              /\ \A n \in DOMAIN slow.slow_commands :
                    /\ slow.slow_commands[n].duration =
                           PairedDuration(TheBlocks, NthOf(reported, n))
                    /\ slow.slow_commands[n].command = CmdMakeTest
              /\ \A n \in DOMAIN slow.slow_commands :
                    slow.slow_commands[n].duration # threshold
              /\ TheBlocks = SevenSecondLog =>
                    Len(slow.slow_commands) = (IF threshold = 5 THEN 1 ELSE 0)

\* C5 witness: the 7 s command was sampled once and reported at threshold 5,
\* in a log where a command of exactly 5 s was not.
C5_Witness ==
    /\ threshold = 5
    /\ TheBlocks = SevenSecondLog \o
                   <<ActionBlock(TsOne, Terminal(CmdMakeTest)),
                     ObservationBlock(TsFive, Obs([exit_code |-> 0]))>>
    /\ timing.pc = "done"
    /\ Len(timing.returned[1]) = 2
    /\ timing.returned[1][1].duration = 7
    /\ slow.pc = "done"
    /\ Len(slow.slow_commands) = 1
    /\ slow.slow_commands[1].duration = 7

(***************************************************************************)
(* Claims about the repetition detectors (SpecRepetition).                 *)
(***************************************************************************)
\* the Terminal commands of the session, in order
TerminalCommands ==
    LET terminal == SelectSeqIn(TheBlocks,
                        {b \in {TheBlocks[i] : i \in DOMAIN TheBlocks} :
                            /\ b.decodes
                            /\ b.data.kind = KwActionEvent
                            /\ "action" \in DOMAIN b.data
                            /\ b.data.action.kind = KwTerminalAction})
    IN  [i \in DOMAIN terminal |-> terminal[i].data.action.command]

\* how many commands of the session have the normalized key
Occurrences(key) ==
    Cardinality({i \in DOMAIN TerminalCommands : SessionKey(TerminalCommands[i]) = key})

\* the entries of a report for the key
EntriesOf(report, key) == {n \in DOMAIN report : report[n].command = key}

\* C6: a normalized key that occurs k times in the session is in the
\* repeated-commands report exactly once, with count k, if k >= 2, and not
\* at all if k < 2; if k >= 3 the same key with the same count k is also in
\* the retry-loop report of extract_failures.
C6_RepeatedKeyAlsoRetryLoop ==
    (session.pc = "done" /\ failures.pc = "done") =>
        \A c \in DOMAIN TerminalCommands :
            LET key == SessionKey(TerminalCommands[c])
                k == Occurrences(key)
                repeated == session.analysis.repeated_commands
                retried == failures.result.retry_loops
            IN  /\ k >= 2 =>
                      /\ Cardinality(EntriesOf(repeated, key)) = 1
                      /\ \A n \in EntriesOf(repeated, key) : repeated[n].count = k
                /\ k < 2 => EntriesOf(repeated, key) = {}
                /\ k >= 3 =>
                      \E n \in EntriesOf(retried, key) : retried[n].count = k

(***************************************************************************)
(* Claims about extract_failures (SpecFailures).                           *)
(***************************************************************************)
\* what the commands of the generated logs are
CommandClass(cmd) ==
    CASE cmd \in {CmdMakeBuild, CmdGoBuild, CmdBuildThenTest} -> "build"
      [] cmd = CmdMakeCheck -> "test"
      [] OTHER -> "none"

IsTerminalAt(blks, i) ==
    blks[i].data.kind = KwActionEvent /\ blks[i].data.action.kind = KwTerminalAction

IsFailingAt(blks, j) ==
    blks[j].data.kind = KwObservationEvent /\ blks[j].data.observation.exit_code # 0

\* the most recent Terminal command before index j, None when there is none
LastTerminalBefore(blks, j) ==
    LET before == {i \in 1..(j - 1) : IsTerminalAt(blks, i)} IN
    IF before = {} THEN None
    ELSE blks[CHOOSE i \in before : \A k \in before : k <= i].data.action.command

\* the failing observations whose most recent Terminal command is of the class
FailingOf(blks, class) ==
    {j \in DOMAIN blks :
        /\ IsFailingAt(blks, j)
        /\ CommandClass(LastTerminalBefore(blks, j)) = class}

\* the list holds one record for each observation of the set, in order
RecordsAre(list, blks, expected) ==
    /\ Len(list) = Cardinality(expected)
    /\ \A n \in DOMAIN list :
          LET j == NthOf(expected, n) IN
          list[n] = [file |-> NameA,
                     exit_code |-> blks[j].data.observation.exit_code,
                     command |-> LastTerminalBefore(blks, j),
                     output_preview |-> blks[j].data.observation.output]

LineUndefinedSymbol == SubSeq(OutError, 1, 27)

\* C7: a failing observation whose most recent Terminal command contains
\* "go build" or "make build" gives exactly one build-failure record (file,
\* exit code, command, output preview) and no test-failure record; otherwise,
\* if the command contains "go test", "make test" or "make check", exactly
\* one test-failure record; no failing observation is in both lists; and the
\* error lines reported for the failure of make build with an output that
\* starts "error: undefined symbol foo" include that line.
C7_BuildBeforeTestOneRecord ==
    failures.pc = "done" =>
        /\ RecordsAre(failures.result.build_failures, TheBlocks,
                      FailingOf(TheBlocks, "build"))
        /\ RecordsAre(failures.result.test_failures, TheBlocks,
                      FailingOf(TheBlocks, "test"))
        /\ Len(failures.result.build_failures) + Len(failures.result.test_failures)
              <= Cardinality({j \in DOMAIN TheBlocks : IsFailingAt(TheBlocks, j)})
        /\ \A n \in DOMAIN failures.report.build :
              failures.result.build_failures[n].command = CmdMakeBuild =>
                  \E l \in DOMAIN failures.report.build[n].err :
                      failures.report.build[n].err[l] = LineUndefinedSymbol

\* C7 witness: the failed make build went to the build list only and was
\* reported with its first error line, the failed make check to the test list.
C7_Witness ==
    /\ failures.pc = "done"
    /\ TheBlocks = <<ActionBlock(None, Terminal(CmdMakeBuild)),
                     ObservationBlock(None, Obs([exit_code |-> 1, output |-> OutError])),
                     ActionBlock(None, Terminal(CmdMakeCheck)),
                     ObservationBlock(None, Obs([exit_code |-> 1, output |-> OutError]))>>
    /\ Len(failures.result.build_failures) = 1
    /\ failures.result.build_failures[1].command = CmdMakeBuild
    /\ Len(failures.result.test_failures) = 1
    /\ failures.result.test_failures[1].command = CmdMakeCheck
    /\ failures.report.build[1].err[1] = LineUndefinedSymbol

(***************************************************************************)
(* Claims about analyze_session (SpecSession, SpecObservations,            *)
(* SpecSubtypes).                                                          *)
(***************************************************************************)
\* the log of the end-to-end scenario
ScenarioLog ==
    <<ActionBlock(TsOne, Terminal(CmdLs)),
      ObservationBlock(TsTwo, Obs([exit_code |-> 0])),
      ActionBlock(TsOne, Terminal(CmdMakeTest)),
      ObservationBlock(TsTwo, Obs([exit_code |-> 1, output |-> OutFail]))>>

\* the Terminal commands of the session that hold an exploration token
ExploringCommands ==
    SelectSeqIn(TerminalCommands,
                {c \in {TerminalCommands[i] : i \in DOMAIN TerminalCommands} :
                    \E i \in 1..Len(c) : \E token \in ExplorationTokens :
                        i + Len(token) - 1 <= Len(c)
                        /\ SubSeq(c, i, i + Len(token) - 1) = token})

FailingObservations ==
    {j \in DOMAIN TheBlocks :
        /\ TheBlocks[j].data.kind = KwObservationEvent
        /\ "exit_code" \in DOMAIN TheBlocks[j].data.observation
        /\ TheBlocks[j].data.observation.exit_code # 0}

\* C8: on the log ls src/, exit 0, make test, exit 1 with "FAIL: test_x",
\* analyze_session reports 2 terminal actions, exactly one failed command,
\* identified as make test with exit code 1, no repeated command, and
\* "ls src/" among the exploration actions; in general terminal_actions is
\* the number of Terminal ActionEvents, failed_commands has one entry for
\* each failing observation, and exploration_actions lists in order the
\* Terminal commands that hold an exploration token.
C8_ScenarioFailedCommandIdentified ==
    session.pc = "done" =>
        LET a == session.analysis IN
        /\ a.terminal_actions = Len(TerminalCommands)
        /\ Len(a.failed_commands) = Cardinality(FailingObservations)
        /\ a.exploration_actions =
              [i \in DOMAIN ExploringCommands |->
                  Take(ExploringCommands[i], ExplorationPreview)]
        /\ TheBlocks = ScenarioLog =>
              /\ a.terminal_actions = 2
              /\ Len(a.failed_commands) = 1
              /\ a.failed_commands[1].exit_code = 1
              /\ "command" \in DOMAIN a.failed_commands[1]
              /\ a.failed_commands[1].command = CmdMakeTest
              /\ a.repeated_commands = <<>>
              /\ \E i \in DOMAIN a.exploration_actions : a.exploration_actions[i] = CmdLs

\* the observations of the log that are mappings
MappingObservations ==
    {j \in DOMAIN TheBlocks :
        /\ TheBlocks[j].data.kind = KwObservationEvent
        /\ TheBlocks[j].data.observation # NotADict}

ObservationAt(j) == TheBlocks[j].data.observation

\* the length of the output of the observation at j, 0 when it has none
OutputLength(j) ==
    IF "output" \in DOMAIN ObservationAt(j) THEN Len(ObservationAt(j).output) ELSE 0

\* C9: an observation that is a mapping is recorded as a failure if and only
\* if its exit code is present and not 0, and as a long output if and only if
\* its output is longer than 5000 characters; the two are independent, an
\* observation can be in both lists, and the recorded length is that of the
\* full output, not of the 200-character failure preview.
C9_FailureAndLongOutputIndependent ==
    session.pc = "done" =>
        LET a == session.analysis
            failing == {j \in MappingObservations :
                           /\ "exit_code" \in DOMAIN ObservationAt(j)
                           /\ ObservationAt(j).exit_code # 0}
            long == {j \in MappingObservations : OutputLength(j) > 5000}
        IN  /\ Len(a.failed_commands) = Cardinality(failing)
            /\ \A n \in DOMAIN a.failed_commands :
                  LET j == NthOf(failing, n) IN
                  /\ a.failed_commands[n].exit_code = ObservationAt(j).exit_code
                  /\ Len(a.failed_commands[n].output_preview) =
                         IF OutputLength(j) < 200 THEN OutputLength(j) ELSE 200
            /\ Len(a.long_outputs) = Cardinality(long)
            /\ \A n \in DOMAIN a.long_outputs :
                  a.long_outputs[n].length = OutputLength(NthOf(long, n))

\* C9 witness: an observation with exit code 1 and 5001 characters of output
\* is in both lists, one with exit code 2 and exactly 5000 characters is a
\* failure only, and one with exit code 0 and 5001 characters is long only.
C9_Witness ==
    /\ session.pc = "done"
    /\ TheBlocks = <<ObservationBlock(None, Obs([exit_code |-> 1, output |-> OutLong])),
                     ObservationBlock(None, Obs([exit_code |-> 2, output |-> OutAtLimit])),
                     ObservationBlock(None, Obs([exit_code |-> 0, output |-> OutLong]))>>
    /\ Len(session.analysis.failed_commands) = 2
    /\ Len(session.analysis.failed_commands[1].output_preview) = 200
    /\ Len(session.analysis.long_outputs) = 2
    /\ session.analysis.long_outputs[1].length = 5001

\* the subtype of each block of the generated logs, "" when it is no ActionEvent
SubtypeOfBlock(b) ==
    CASE b = ActionBlock(None, Terminal(CmdLs)) -> "Terminal"
      [] b = ActionBlock(None, FileEditor(KwView, PathMain)) -> "FileEditor"
      [] b = ActionBlock(None, [kind |-> KindContainer]) -> "Container"
      [] b = ActionBlock(None, [kind |-> KindThink]) -> "Other"
      [] b = PlainBlock(KwActionEvent, TsOne) -> "Other"
      [] b = BadBlock(KwActionEvent, None, 40) -> "Other"
      [] OTHER -> ""

CountOfSubtype(sub) ==
    Cardinality({i \in DOMAIN TheBlocks : SubtypeOfBlock(TheBlocks[i]) = sub})

\* C10: every ActionEvent is counted in exactly one of Terminal, FileEditor,
\* Container (any kind holding "container" in any case) and Other; an
\* ActionEvent without an action key, a degraded one included, is counted as
\* Other without raising; so the four counts sum to action_count, and
\* message_count + action_count + observation_count <= total_events, events
\* of an unknown kind being kept in total_events.
C10_SubtypesPartitionActions ==
    /\ session.pc \in {"loop", "returned", "done"} =>
          LET a == session.analysis IN
          /\ a.terminal_actions + a.file_editor_actions + a.container_actions
                + a.other_actions = a.action_count
          /\ a.message_count + a.action_count + a.observation_count <= a.total_events
          /\ a.total_events = Len(TheBlocks)
    /\ session.pc = "done" =>
          LET a == session.analysis IN
          /\ a.terminal_actions = CountOfSubtype("Terminal")
          /\ a.file_editor_actions = CountOfSubtype("FileEditor")
          /\ a.container_actions = CountOfSubtype("Container")
          /\ a.other_actions = CountOfSubtype("Other")
          /\ a.action_count = Cardinality({i \in DOMAIN TheBlocks :
                                              SubtypeOfBlock(TheBlocks[i]) # ""})

\* C10 witness: a container action, an ActionEvent without an action key, a
\* degraded ActionEvent and an event of unknown kind were analysed.
C10_Witness ==
    /\ session.pc = "done"
    /\ TheBlocks = <<ActionBlock(None, [kind |-> KindContainer]),
                     PlainBlock(KwActionEvent, TsOne),
                     BadBlock(KwActionEvent, None, 40),
                     PlainBlock(KindSystemPrompt, None)>>
    /\ session.analysis.container_actions = 1
    /\ session.analysis.other_actions = 2
    /\ session.analysis.action_count = 3
    /\ session.analysis.total_events = 4

(***************************************************************************)
(* SpecAttribution: extract_failures on sessions where explorations,       *)
(* edits and long commands come between a command and its observation.     *)
(***************************************************************************)
CmdFindCompcert == <<"f","i","n","d"," ","c","o","m","p","c","e","r","t"," ","-","n","a","m","e"," ","x",".","v">>
\* a test command of 110 characters
CmdTestLong == CmdTestPrefix \o Rep("x", 100)

AttributionPool ==
    {ActionBlock(None, Terminal(CmdMakeBuild)),
     ActionBlock(None, Terminal(CmdTestLong)),
     ActionBlock(None, Terminal(CmdFindCompcert)),
     ActionBlock(None, FileEditor(KwView, PathMain)),
     ActionBlock(None, [kind |-> KindThink]),
     ObservationBlock(None, Obs([exit_code |-> 1, output |-> OutFail])),
     ObservationBlock(None, Obs([exit_code |-> 0, output |-> OutFail]))}

AttributionInit ==
    /\ ParserIdle
    /\ logDir \in OneFileDirs(AttributionPool)
    /\ threshold = DefaultThreshold
    /\ session = Idle
    /\ failures = Ready
    /\ timing = Idle
    /\ slow = Idle
    /\ reasoning = Idle
    /\ hans = Idle

SpecAttribution == AttributionInit /\ [][FailuresNext]_vars

(***************************************************************************)
(* Claims about the command state of extract_failures (SpecAttribution).   *)
(***************************************************************************)
\* the first 100 characters of the commands of the generated sessions
ShownCommand(cmd) ==
    IF cmd = CmdTestLong THEN CmdTestPrefix \o Rep("x", 90) ELSE cmd

\* the command a failure at index j is to carry
CommandOfFailure(blks, j) ==
    IF \E i \in 1..(j - 1) : IsTerminalAt(blks, i)
    THEN ShownCommand(LastTerminalBefore(blks, j))
    ELSE KwUnknown

\* the failing observations among the first n blocks
FailingUpTo(blks, n) == {j \in 1..n : IsFailingAt(blks, j)}

\* the failing observations that follow a command of the set, most recently
FailingAfter(blks, commands) ==
    {j \in DOMAIN blks :
        IsFailingAt(blks, j) /\ LastTerminalBefore(blks, j) \in commands}

DirectoryPool ==
    {ActionBlock(TsOne, Terminal(CmdMakeTest)),
     ActionBlock(TsOne, Terminal(CmdLs)),
     ObservationBlock(TsTwo, Obs([exit_code |-> 1, output |-> OutFail]))}

\* a session of at most MaxEvents blocks cut in two files, a.log and b.log
TwoFileDirs(pool) ==
    UNION {{LET a == [name |-> NameA, blocks |-> SubSeq(s, 1, k)]
                b == [name |-> NameB, blocks |-> SubSeq(s, k + 1, Len(s))]
            IN  IF swap THEN <<b, a>> ELSE <<a, b>> :
               k \in 0..Len(s), swap \in BOOLEAN} :
           s \in UNION {[1..n -> pool] : n \in 0..MaxEvents}}

DirectoryInit ==
    /\ ParserIdle
    /\ logDir \in TwoFileDirs(DirectoryPool)
    /\ threshold = DefaultThreshold
    /\ session = Idle
    /\ failures = Ready
    /\ timing = Ready
    /\ slow = Ready
    /\ reasoning = Idle
    /\ hans = Idle

DirectoryNext ==
    \/ FailuresNext
    \/ (failures.pc = "done" /\ TimingNext)
    \/ (timing.pc \in {"done", "raised"} /\ SlowNext)

SpecDirectory == DirectoryInit /\ [][DirectoryNext]_vars

(***************************************************************************)
(* Claims about the directory-wide analyses (SpecDirectory).               *)
(***************************************************************************)
\* the blocks of the file of the directory with the name
FileNamed(name) == logDir[CHOOSE i \in DOMAIN logDir : logDir[i].name = name].blocks

IsActionAt(blks, i) == blks[i].data.kind = KwActionEvent

IsObservationAt(blks, j) == blks[j].data.kind = KwObservationEvent

\* the observations of a file that come right after an action of the file
AnsweringObservations(blks) ==
    {j \in DOMAIN blks : j > 1 /\ IsObservationAt(blks, j) /\ IsActionAt(blks, j - 1)}

\* file and command of the observations of a file that answer an action
AnsweredIn(name) ==
    LET blks == FileNamed(name)
        answering == AnsweringObservations(blks)
    IN  [n \in 1..Cardinality(answering) |->
            [file |-> name,
             command |-> blks[NthOf(answering, n) - 1].data.action.command]]

\* file and command of the failures of a file that follow a make test of it
TestFailuresIn(name) ==
    LET blks == FileNamed(name)
        failing == {j \in DOMAIN blks :
                       /\ IsFailingAt(blks, j)
                       /\ LastTerminalBefore(blks, j) = CmdMakeTest}
    IN  [n \in 1..Cardinality(failing) |-> [file |-> name, command |-> CmdMakeTest]]

\* how often a file holds the command
TimesIn(name, cmd) ==
    LET blks == FileNamed(name) IN
    Cardinality({i \in DOMAIN blks :
                    IsActionAt(blks, i) /\ blks[i].data.action.command = cmd})

FileAndCommand(seq) ==
    [n \in DOMAIN seq |-> [file |-> seq[n].file, command |-> seq[n].command]]

\* C12: the files of a directory are processed in sorted name order and the
\* state of a file (last command, pending action and its time, command
\* counts) is reset at the start of each file: no observation of b.log is
\* paired with or attributed to an action of a.log, and the commands of
\* a.log count for no retry loop of b.log.
C12_FilesInOrderStateReset ==
    /\ failures.pc = "done" =>
          /\ [i \in DOMAIN failures.files |-> failures.files[i].name] = <<NameA, NameB>>
          /\ FileAndCommand(failures.result.test_failures)
                = TestFailuresIn(NameA) \o TestFailuresIn(NameB)
          /\ Len(failures.result.retry_loops)
                = Cardinality({x \in {NameA, NameB} \X {CmdMakeTest, CmdLs} :
                                  TimesIn(x[1], x[2]) >= 3})
          /\ \A n \in DOMAIN failures.result.retry_loops :
                LET r == failures.result.retry_loops[n] IN
                r.count = TimesIn(r.file, r.command) /\ r.count >= 3
    /\ timing.pc = "done" =>
          /\ [i \in DOMAIN timing.files |-> timing.files[i].name] = <<NameA, NameB>>
          /\ Len(timing.returned) = 2
          /\ Len(timing.returned[1]) = Len(AnsweredIn(NameA))
          /\ Len(timing.returned[2]) = Len(AnsweredIn(NameB))
    /\ slow.pc = "done" =>
          /\ [i \in DOMAIN slow.files |-> slow.files[i].name] = <<NameA, NameB>>
          /\ FileAndCommand(slow.slow_commands) = AnsweredIn(NameA) \o AnsweredIn(NameB)

\* C12 witness: glob listed b.log first; a.log ends with the third make test
\* and b.log starts with the failing observation: no failure, no sample, no
\* slow command is reported for b.log, and the retry loop is that of a.log.
C12_Witness ==
    /\ logDir = <<[name |-> NameB,
                   blocks |-> <<ObservationBlock(TsTwo, Obs([exit_code |-> 1,
                                                            output |-> OutFail]))>>],
                  [name |-> NameA,
                   blocks |-> <<ActionBlock(TsOne, Terminal(CmdMakeTest)),
                                ActionBlock(TsOne, Terminal(CmdMakeTest)),
                                ActionBlock(TsOne, Terminal(CmdMakeTest))>>]>>
    /\ slow.pc = "done"
    /\ slow.slow_commands = <<>>
    /\ timing.returned = <<<<>>, <<>>>>
    /\ failures.result.test_failures = <<>>
    /\ failures.result.retry_loops =
          <<[file |-> NameA, command |-> CmdMakeTest, count |-> 3]>>

(***************************************************************************)
(* SpecTimestamps: timing_analysis, then slow_commands, on events whose    *)
(* timestamps are with an offset, without one, or no time at all.          *)
(***************************************************************************)
TimestampPool ==
    {ActionBlock(TsOne, Terminal(CmdMakeTest)),
     ActionBlock(TsGarbage, Terminal(CmdMakeTest)),
     ObservationBlock(TsTwo, Obs([exit_code |-> 0])),
     ObservationBlock(TsGarbage, Obs([exit_code |-> 0])),
     ObservationBlock(TsNaive, Obs([exit_code |-> 0]))}

TimestampInit ==
    /\ ParserIdle
    /\ logDir \in OneFileDirs(TimestampPool)
    /\ threshold = DefaultThreshold
    /\ session = Idle
    /\ failures = Idle
    /\ timing = Ready
    /\ slow = Ready
    /\ reasoning = Idle
    /\ hans = Idle

SpecTimestamps == TimestampInit /\ [][TimingSlowNext]_vars

(***************************************************************************)
(* Claims about timestamps that cannot be parsed (SpecTimestamps).         *)
(***************************************************************************)
\* the timestamps of the generated events that datetime can parse
IsParsedAt(blks, i) == blks[i].data.timestamp \in {TsOne, TsTwo, TsNaive}

\* the observations that find a pending action with a time: the most recent
\* action has a time that parses, and no observation with such a time came
\* since
SampledObservations(blks) ==
    {j \in DOMAIN blks :
        /\ IsObservationAt(blks, j)
        /\ IsParsedAt(blks, j)
        /\ \E i \in 1..(j - 1) :
              /\ IsActionAt(blks, i)
              /\ IsParsedAt(blks, i)
              /\ \A k \in (i + 1)..(j - 1) :
                    IsObservationAt(blks, k) /\ ~IsParsedAt(blks, k)}

\* C13: a timestamp that cannot be parsed is treated like no timestamp: an
\* observation with one gives no sample and leaves the pending action as it
\* was, an action with one becomes a pending action without a time, and for
\* no timestamps in a log does analyze_timing or find_slow_commands raise.
C13_UnparsedTimestampAbsentNeverRaises ==
    /\ timing.pc # "raised"
    /\ slow.pc # "raised"
    /\ timing.pc = "done" =>
          Len(timing.returned[1]) = Cardinality(SampledObservations(TheBlocks))
    /\ slow.pc = "done" =>
          Len(slow.slow_commands) = Cardinality(SampledObservations(TheBlocks))

(***************************************************************************)
(* Claims about dropped blocks and determinism of parse_log_file (Spec).   *)
(***************************************************************************)
\* the blocks matched so far that gave no event
DroppedBlocks == {b \in DOMAIN blocks : blocks[b].outcome = "dropped"}

\* the file holds blocks only, no narration between or after them
BlocksOnly == \A i \in DOMAIN logFile : logFile[i] \notin {Narration, BadByteLine}

\* C14: a block that fails to decode and holds no kind gives no event, one
\* diagnostic is written to standard error for it (so the diagnostics count
\* the dropped blocks), and in a file of blocks only the well-formed block
\* after it gives its event.
C14_KindlessBlockDroppedWithOneDiagnostic ==
    copy \in DegradingCopies =>
       /\ \A b \in DroppedBlocks : EventsAt(blocks[b].start) = {}
       /\ diags = Cardinality(DroppedBlocks)
       /\ (pstate = "done" /\ BlocksOnly) =>
             \A i \in DOMAIN logFile :
                 (/\ logFile[i] = BadNoKind
                  /\ i + 1 \in DOMAIN logFile
                  /\ logFile[i + 1] \in GoodBlocks)
                 => \E k \in EventsAt(SegStart(logFile, i + 1)) :
                        events[k].data = BlockObject(logFile[i + 1])

\* the events of copy c as a function of the text alone, from position p on
RECURSIVE EventsFrom(_, _, _)
EventsFrom(c, text, p) ==
    LET m == FindMatch(text, p)
        js == Sanitize(SubSeq(text, m.open, m.close))
    IN  IF ~m.found THEN <<>>
        ELSE (IF JsonLoads(js).ok THEN <<DecodedEvent(JsonLoads(js).val)>>
              ELSE IF c \in DegradingCopies /\ SearchMember(js, "kind").found
                   THEN <<DegradedEvent(c, js)>>
                   ELSE <<>>)
             \o EventsFrom(c, text, m.end)

Stamped(n) == {j \in 1..n : "timestamp" \in DOMAIN TheBlocks[j].data}

\* the events the loop of analyze_session has gone through
SessionSeen == IF session.pc = "loop" THEN session.i - 1 ELSE Len(TheBlocks)

\* C16: start_time is the timestamp of the first event that carries one and
\* end_time that of the last event that carries one (the last seen, which
\* need not be the latest); both are None exactly when no event carries a
\* timestamp, and an event without one changes neither.
C16_TimelineFirstAndLastSeen ==
    session.pc \in {"loop", "returned", "done"} =>
       LET seen == Stamped(SessionSeen)
           first == CHOOSE j \in seen : \A k \in seen : j <= k
           last == CHOOSE j \in seen : \A k \in seen : k <= j
       IN  /\ IF seen = {}
              THEN /\ session.analysis.start_time = None
                   /\ session.analysis.end_time = None
              ELSE /\ session.analysis.start_time = TheBlocks[first].data.timestamp
                   /\ session.analysis.end_time = TheBlocks[last].data.timestamp
                   /\ session.analysis.start_time # None
                   /\ session.analysis.end_time # None
           /\ session.pc = "done" =>
                 session.report.time = <<session.analysis.start_time,
                                         session.analysis.end_time>>

\* C16 witness: the session ends on an event without a timestamp, and the
\* last timestamp seen is earlier than the first one.
C16_Witness ==
    /\ session.pc = "done"
    /\ TheBlocks = <<ActionBlock(None, Terminal(CmdEcho)),
                     ObservationBlock(TsTwo, Obs([exit_code |-> 0])),
                     ActionBlock(TsOne, Terminal(CmdLs)),
                     ActionBlock(None, Terminal(CmdEcho))>>
    /\ session.analysis.start_time = TsTwo
    /\ session.analysis.end_time = TsOne

(***************************************************************************)
(* Claims about the totals and the samples of timing_analysis (SpecTiming).*)
(***************************************************************************)
\* the event at i carries a timestamp
IsStampedAt(blks, i) == "timestamp" \in DOMAIN blks[i].data

\* the observation at j resolves the action at i: both carry a timestamp,
\* no action and no observation with a timestamp lies between them
Resolves(blks, i, j) ==
    /\ i < j
    /\ IsActionAt(blks, i) /\ IsStampedAt(blks, i)
    /\ IsObservationAt(blks, j) /\ IsStampedAt(blks, j)
    /\ \A k \in (i + 1)..(j - 1) :
          /\ ~IsActionAt(blks, k)
          /\ ~(IsObservationAt(blks, k) /\ IsStampedAt(blks, k))

\* the observations of a file that measure a duration, and the action each
\* one resolves
Measured(blks) == {j \in DOMAIN blks : \E i \in DOMAIN blks : Resolves(blks, i, j)}
ResolvedBy(blks, j) == CHOOSE i \in DOMAIN blks : Resolves(blks, i, j)
MeasuredDuration(blks, j) ==
    SecondsOfDay(blks[j].data.timestamp)
        - SecondsOfDay(blks[ResolvedBy(blks, j)].data.timestamp)

\* the sum of the durations measured by the observations in the set S
RECURSIVE TotalMeasured(_, _)
TotalMeasured(blks, S) ==
    IF S = {} THEN 0
    ELSE LET j == CHOOSE j \in S : TRUE
         IN  MeasuredDuration(blks, j) + TotalMeasured(blks, S \ {j})

\* the ActionEvents of a file
ActionEvents(blks) == {i \in DOMAIN blks : blks[i].data.kind = KwActionEvent}

\* the line of the timing report for the one file of the directory
SessionLine == timing.report.sessions[1]

\* the total of the session line is the sum of the durations measured
TotalIsSumOfDurations ==
    (timing.pc = "done" /\ Measured(TheBlocks) # {}) =>
       /\ Len(timing.report.sessions) = 1
       /\ SessionLine.name = logDir[1].name
       /\ SessionLine.total_seconds = TotalMeasured(TheBlocks, Measured(TheBlocks))

\* C17: for a file with at least one measured duration, the total of its
\* line in the timing report is the sum of the durations measured in the
\* file, and the action count next to it is the number of ActionEvents of
\* the file.
C17_TotalIsSumCountIsActions ==
    /\ TotalIsSumOfDurations
    /\ (timing.pc = "done" /\ Measured(TheBlocks) # {}) =>
          SessionLine.action_count = Cardinality(ActionEvents(TheBlocks))

\* the ObservationEvents of a file
ObservationEvents(blks) == {j \in DOMAIN blks : IsObservationAt(blks, j)}

\* the samples analyze_timing has collected for the file so far
TimingSamples ==
    IF timing.pc = "loop" THEN timing.action_times ELSE timing.returned[1]

\* the events analyze_timing has gone through
TimingSeen == IF timing.pc = "loop" THEN timing.i - 1 ELSE Len(TheBlocks)

\* C18: analyze_timing keeps one pending action. The samples are, in order,
\* the observations with a timestamp that find the most recent ActionEvent
\* stamped and not yet resolved; each has the duration between the two
\* timestamps and the type of that most recent ActionEvent. An action
\* overwritten by a later one and an observation after a resolved one give
\* nothing, so the samples are no more than the ActionEvents and no more
\* than the ObservationEvents.
C18_SinglePendingAction ==
    (timing.pc = "loop" \/ (timing.pc = "done" /\ Len(timing.returned) = 1)) =>
       LET measured == {j \in Measured(TheBlocks) : j <= TimingSeen} IN
       /\ Len(TimingSamples) = Cardinality(measured)
       /\ \A n \in DOMAIN TimingSamples :
             LET j == NthOf(measured, n) IN
             /\ TimingSamples[n].duration = MeasuredDuration(TheBlocks, j)
             /\ TimingSamples[n].action =
                    TheBlocks[ResolvedBy(TheBlocks, j)].data.action.kind
       /\ Len(TimingSamples) <= Cardinality(ActionEvents(TheBlocks))
       /\ Len(TimingSamples) <= Cardinality(ObservationEvents(TheBlocks))

\* C18 witness: the first action was overwritten, the second was resolved in
\* 5 s, and the observation after that found nothing pending.
C18_Witness ==
    /\ timing.pc = "done"
    /\ TheBlocks = <<ActionBlock(TsOne, Terminal(CmdMakeTest)),
                     ActionBlock(TsOne, FileEditor(KwView, PathMain)),
                     ObservationBlock(TsFive, Obs([exit_code |-> 0])),
                     ObservationBlock(TsTen, Obs([exit_code |-> 1]))>>
    /\ Len(timing.returned[1]) = 1
    /\ timing.returned[1][1].action = KwFileEditorAction
    /\ timing.returned[1][1].duration = 5

(***************************************************************************)
(* Claims about the command key of the detectors (SpecRepetition).         *)
(***************************************************************************)
\* the key of the claim: the original text, left-trimmed, cut to n characters
LeftKey(cmd, n) == Take(LStrip(cmd), n)

\* the commands of the session whose left-trimmed prefix of n characters is key
WithLeftKey(key, n) ==
    {c \in DOMAIN TerminalCommands : LeftKey(TerminalCommands[c], n) = key}

\* every entry of the report is the left-trimmed prefix of fixed length of
\* a command of the session, counted with the commands that share it
KeyedByLeftPrefix(report) ==
    \A n \in DOMAIN report :
        /\ WithLeftKey(report[n].command, SessionKeyLength) # {}
        /\ report[n].count = Cardinality(WithLeftKey(report[n].command, SessionKeyLength))

\* C19: the key of a command is its text, left-trimmed only and cut to one
\* fixed length: commands are counted together exactly when their
\* left-trimmed texts agree on that prefix (trailing whitespace within it
\* keeps them apart), and the repeated-commands report and the retry-loop
\* report use the same key for the same command.
C19_KeyLeftTrimmedSameInBoth ==
    (session.pc = "done" /\ failures.pc = "done") =>
       /\ KeyedByLeftPrefix(session.analysis.repeated_commands)
       /\ KeyedByLeftPrefix(failures.result.retry_loops)

(***************************************************************************)
(* Claims about exploration waste (SpecAttribution).                       *)
(***************************************************************************)
\* C20: extract_failures holds one exploration-waste record (file, command,
\* category) for each failed observation whose most recent Terminal command
\* is the exploration command on the denylisted category, and none for an
\* exploration command whose observation passed or that had no observation.
C20_WasteOnlyForFailedExploration ==
    failures.pc = "done" =>
       LET waste == failures.result.exploration_waste
           expected == FailingAfter(TheBlocks, {CmdFindCompcert})
       IN  /\ Len(waste) = Cardinality(expected)
           /\ \A n \in DOMAIN waste :
                 /\ waste[n].file = logDir[1].name
                 /\ waste[n].command = CmdFindCompcert
                 /\ waste[n].category = KwExploringCompcertCoq

(***************************************************************************)
(* Claims about the error lines of the failure report (SpecFailures).      *)
(***************************************************************************)
LineMakeError == SubSeq(OutError, 37, 49)

\* the lines of the outputs of the generated logs that hold "error" in any
\* letter case, the first two of them
FirstTwoErrorLines(output) ==
    IF output = OutError THEN <<LineUndefinedSymbol, LineMakeError>> ELSE <<>>

\* the build failures of the report carry their first two error lines
BuildFailuresCarryErrorLines ==
    failures.pc = "done" =>
       \A n \in DOMAIN failures.report.build :
           failures.report.build[n].err =
               FirstTwoErrorLines(failures.result.build_failures[n].output_preview)

\* C21: every build failure and every test failure of the report carries
\* the lines of its output that contain "error" in any letter case, in
\* output order, the first two only; none when the output has no such line.
C21_FailuresCarryFirstTwoErrorLines ==
    /\ BuildFailuresCarryErrorLines
    /\ failures.pc = "done" =>
          \A n \in DOMAIN failures.report.test :
              /\ "err" \in DOMAIN failures.report.test[n]
              /\ failures.report.test[n].err =
                     FirstTwoErrorLines(failures.result.test_failures[n].output_preview)

(***************************************************************************)
(* extract_reasoning.py: extract_reasoning and its main.                   *)
(***************************************************************************)
ReasoningLength == 500
OutcomePreview == 200
ReportedCases == 10
ReportedReasoning == 200

KwRetry == <<"r","e","t","r","y">>
KwAgain == <<"a","g","a","i","n">>
KwExplore == <<"e","x","p","l","o","r","e">>
KwLook == <<"l","o","o","k">>

\* a thinking block that is a dict with a "thinking" member
ThinkingBlock(text) == ("pytype" :> "dict") @@ [thinking |-> text]

\* lines 62-64: reasoning_text += block["thinking"] + "\n" for the dict blocks
RECURSIVE ThinkingText(_)
ThinkingText(thinking_blocks) ==
    IF thinking_blocks = <<>> THEN <<>>
    ELSE LET block == Head(thinking_blocks) IN
         (IF IsDict(block) /\ "thinking" \in DOMAIN block
          THEN block.thinking \o <<"\n">> ELSE <<>>)
         \o ThinkingText(Tail(thinking_blocks))

\* lines 53-64: reasoning_content if it is truthy, else the thinking blocks
ReasoningText(data) ==
    LET reasoning_content == Get(data, "reasoning_content", None)
        thinking_blocks == Get(data, "thinking_blocks", <<>>)
    IN  IF TruthyStr(reasoning_content) THEN reasoning_content
        ELSE IF thinking_blocks # <<>> THEN ThinkingText(thinking_blocks)
        ELSE <<>>

\* outcome = None
NoOutcome == [pytype |-> "NoneType"]

\* a look ahead that takes the first observation after the action, wherever
OutcomeOfLaterObservation(evs, i) ==
    LET later == {j \in (i + 1)..Len(evs) : evs[j].kind = KwObservationEvent} IN
    IF later = {} THEN NoOutcome
    ELSE LET j == CHOOSE j \in later : \A k \in later : j <= k
             obs == Get(evs[j].data, "observation", Obs(EmptyDict))
         IN  IF IsDict(obs)
             THEN Obs((IF "exit_code" \in DOMAIN obs
                       THEN "exit_code" :> obs.exit_code ELSE EmptyDict)
                      @@ ("output_preview" :> Take(Get(obs, "output", <<>>), OutcomePreview)))
             ELSE NoOutcome

\* lines 68-74: the look ahead; exit_code None is the member left out
Outcome(evs, i) ==
    IF i + 1 <= Len(evs) /\ evs[i + 1].kind = KwObservationEvent
    THEN LET obs == Get(evs[i + 1].data, "observation", Obs(EmptyDict)) IN
         IF IsDict(obs)
         THEN Obs((IF "exit_code" \in DOMAIN obs
                   THEN "exit_code" :> obs.exit_code ELSE EmptyDict)
                  @@ ("output_preview" :> Take(Get(obs, "output", <<>>), OutcomePreview)))
         ELSE NoOutcome
    ELSE NoOutcome

\* lines 51-82: one pass of the loop body, on the event at index i
ReasoningAfterEvent(samples, evs, i) ==
    LET event == evs[i]
        text == ReasoningText(event.data)
    IN  IF event.kind = KwActionEvent /\ text # <<>>
        THEN Append(samples,
                    [timestamp |-> event.timestamp,
                     action_kind |-> Get(Get(event.data, "action", EmptyDict), "kind", <<>>),
                     summary |-> Get(event.data, "summary", <<>>),
                     reasoning |-> Take(text, ReasoningLength),
                     outcome |-> Outcome(evs, i)])
        ELSE samples

\* a tagging that looks at the keywords before the outcome
TagKeywordsFirst(sample) ==
    LET outcome == sample.outcome
        lower == Lower(sample.reasoning)
    IN  IF Contains(KwRetry, lower) \/ Contains(KwAgain, lower) THEN "RETRY"
        ELSE IF Contains(KwExplore, lower) \/ Contains(KwLook, lower) THEN "EXPLORE"
        ELSE IF IsDict(outcome) /\ "exit_code" \in DOMAIN outcome /\ outcome.exit_code # 0
        THEN "FAILURE"
        ELSE ""

\* lines 105-111: the tag of a sample, "" for none
Tag(sample) ==
    LET outcome == sample.outcome
        lower == Lower(sample.reasoning)
    IN  IF IsDict(outcome) /\ "exit_code" \in DOMAIN outcome /\ outcome.exit_code # 0
        THEN "FAILURE"
        ELSE IF Contains(KwRetry, lower) \/ Contains(KwAgain, lower) THEN "RETRY"
        ELSE IF Contains(KwExplore, lower) \/ Contains(KwLook, lower) THEN "EXPLORE"
        ELSE ""

\* lines 103-111: the interesting cases, in sample order
RECURSIVE Interesting(_)
Interesting(samples) ==
    IF samples = <<>> THEN <<>>
    ELSE (IF Tag(Head(samples)) # ""
          THEN <<[category |-> Tag(Head(samples)), sample |-> Head(samples)]>>
          ELSE <<>>)
         \o Interesting(Tail(samples))

\* lines 113-123: what main prints for the file
ReasoningReport(samples) ==
    LET interesting == Interesting(samples) IN
    [total |-> Len(samples),
     interesting_count |-> Len(interesting),
     cases |-> [n \in 1..Min(ReportedCases, Len(interesting)) |->
                  [category |-> interesting[n].category,
                   timestamp |-> interesting[n].sample.timestamp,
                   action_kind |-> interesting[n].sample.action_kind,
                   summary |-> interesting[n].sample.summary,
                   reasoning |-> Take(interesting[n].sample.reasoning, ReportedReasoning),
                   outcome |-> interesting[n].sample.outcome]]]

\* line 47: the events of the file named by sys.argv[1] are read
ReasoningLoad ==
    /\ reasoning.pc = "start"
    /\ reasoning' = [pc |-> "loop", i |-> 1, reasoning_samples |-> <<>>,
                     events |-> ParsedEvents("extract_reasoning", ArgFile.blocks)]
    /\ UNCHANGED <<parserVars, logDir, threshold, session, failures, timing, slow, hans>>

\* lines 51-82: the loop body on the next event
ReasoningEvent ==
    /\ reasoning.pc = "loop"
    /\ reasoning.i <= Len(reasoning.events)
    /\ reasoning' = [reasoning EXCEPT
                        !.reasoning_samples =
                            ReasoningAfterEvent(@, reasoning.events, reasoning.i),
                        !.i = @ + 1]
    /\ UNCHANGED <<parserVars, logDir, threshold, session, failures, timing, slow, hans>>

\* line 84: extract_reasoning returns its samples to main
ReasoningReturn ==
    /\ reasoning.pc = "loop"
    /\ reasoning.i > Len(reasoning.events)
    /\ reasoning' = [pc |-> "returned", events |-> reasoning.events,
                     samples |-> reasoning.reasoning_samples]
    /\ UNCHANGED <<parserVars, logDir, threshold, session, failures, timing, slow, hans>>

\* lines 103-123: main tags the samples and prints
ReasoningPrint ==
    /\ reasoning.pc = "returned"
    /\ reasoning' = [pc |-> "done", events |-> reasoning.events,
                     samples |-> reasoning.samples,
                     interesting |-> Interesting(reasoning.samples),
                     report |-> ReasoningReport(reasoning.samples)]
    /\ UNCHANGED <<parserVars, logDir, threshold, session, failures, timing, slow, hans>>

ReasoningNext == ReasoningLoad \/ ReasoningEvent \/ ReasoningReturn \/ ReasoningPrint

(***************************************************************************)
(* SpecReasoning: extract_reasoning on actions with and without reasoning. *)
(***************************************************************************)
TextTryAgain == <<"t","r","y"," ","a","g","a","i","n">>
TextLook == <<"l","o","o","k">>
\* two thoughts of 300 characters each
ThoughtLong == TextLook \o Rep("x", 296)
ThoughtTail == Rep("y", 300)

\* an ActionEvent of a Terminal command with further members
ReasonedAction(ts, rest) ==
    GoodBlock(EventData(KwActionEvent, ts, ("action" :> Terminal(CmdMakeTest)) @@ rest))

\* reasoning_content beside a thinking block: the content is taken
ActionWithContent ==
    ReasonedAction(TsOne, [reasoning_content |-> TextTryAgain,
                           thinking_blocks |-> <<ThinkingBlock(TextLook)>>])
\* two thinking blocks and an entry that is no dict between them
ActionWithThoughts ==
    ReasonedAction(TsOne, [thinking_blocks |-> <<ThinkingBlock(ThoughtLong), NotADict,
                                                 ThinkingBlock(ThoughtTail)>>])
\* one thinking block whose thinking is the empty text
ActionWithEmptyThought ==
    ReasonedAction(TsOne, [thinking_blocks |-> <<ThinkingBlock(<<>>)>>])

ReasoningPool ==
    {ActionWithContent, ActionWithThoughts, ActionWithEmptyThought,
     ActionBlock(TsOne, Terminal(CmdLs)),
     ObservationBlock(TsTwo, Obs([exit_code |-> 1, output |-> OutFail])),
     ObservationBlock(TsTwo, NotADict)}

\* the logs of the pool with the long thoughts at most once
ReasoningDirs ==
    {d \in OneFileDirs(ReasoningPool) :
        Cardinality({i \in DOMAIN d[1].blocks : d[1].blocks[i] = ActionWithThoughts}) <= 1}

ReasoningInit ==
    /\ ParserIdle
    /\ logDir \in ReasoningDirs
    /\ threshold = DefaultThreshold
    /\ session = Idle
    /\ failures = Idle
    /\ timing = Idle
    /\ slow = Idle
    /\ reasoning = Ready
    /\ hans = Idle

SpecReasoning == ReasoningInit /\ [][ReasoningNext]_vars

(***************************************************************************)
(* Claims about extract_reasoning (SpecReasoning).                         *)
(***************************************************************************)
\* the reasoning text of the blocks of the generated logs, when the thinking
\* fields are concatenated as they are
ConcatenatedTexts ==
    [b \in ReasoningPool |->
        CASE b = ActionWithContent -> TextTryAgain
          [] b = ActionWithThoughts -> ThoughtLong \o SubSeq(ThoughtTail, 1, 200)
          [] OTHER -> <<>>]

\* the same when every thinking field is followed by a line feed
LineFedTexts ==
    [b \in ReasoningPool |->
        CASE b = ActionWithContent -> TextTryAgain
          [] b = ActionWithThoughts -> ThoughtLong \o <<"\n">> \o SubSeq(ThoughtTail, 1, 199)
          [] b = ActionWithEmptyThought -> <<"\n">>
          [] OTHER -> <<>>]

\* the observations of the file whose observation member is a mapping
MappingObservationEvents(blks) ==
    {j \in ObservationEvents(blks) : blks[j].data.observation.pytype = "dict"}

\* the samples are, in order, the actions with a text; each carries its text
\* and, when the next event is among observed, an outcome (the exit code and
\* output of that event when it is a mapping), and no outcome otherwise
SamplesAre(samples, texts, observed) ==
    LET textful == {i \in ActionEvents(TheBlocks) : texts[TheBlocks[i]] # <<>>} IN
    /\ Len(samples) = Cardinality(textful)
    /\ \A n \in DOMAIN samples :
          n <= Cardinality(textful) =>
             LET i == NthOf(textful, n) IN
             /\ samples[n].reasoning = texts[TheBlocks[i]]
             /\ IF i + 1 \in observed
                THEN /\ samples[n].outcome # NoOutcome
                     /\ i + 1 \in MappingObservationEvents(TheBlocks) =>
                           samples[n].outcome =
                               Obs([exit_code |-> TheBlocks[i + 1].data.observation.exit_code,
                                    output_preview |->
                                        TheBlocks[i + 1].data.observation.output])
                ELSE samples[n].outcome = NoOutcome

\* C22 as stated: one sample per ActionEvent with a reasoning text, the
\* text being reasoning_content or else the concatenation of the thinking
\* fields, cut to 500 characters; the outcome is that of the next event if
\* and only if the next event is an ObservationEvent.
C22_OutcomeOfAnyNextObservation ==
    reasoning.pc \in {"returned", "done"} =>
       SamplesAre(reasoning.samples, ConcatenatedTexts, ObservationEvents(TheBlocks))

\* C22 as amended: every thinking field is followed by a line feed in the
\* text (so a block with an empty thinking gives a sample), and the outcome
\* is that of the next event if and only if the next event is an
\* ObservationEvent whose observation is a mapping.
C22_OutcomeOfNextMappingObservation ==
    reasoning.pc \in {"returned", "done"} =>
       SamplesAre(reasoning.samples, LineFedTexts, MappingObservationEvents(TheBlocks))

\* C22 witness: the thoughts were joined and cut to 500 characters and got
\* the outcome of the observation next to them; the action after it, with
\* an action without text next, got none.
C22_Witness ==
    /\ reasoning.pc = "done"
    /\ TheBlocks = <<ActionWithThoughts,
                     ObservationBlock(TsTwo, Obs([exit_code |-> 1, output |-> OutFail])),
                     ActionWithContent,
                     ActionBlock(TsOne, Terminal(CmdLs))>>
    /\ Len(reasoning.samples) = 2
    /\ Len(reasoning.samples[1].reasoning) = ReasoningLength
    /\ reasoning.samples[1].outcome.exit_code = 1
    /\ reasoning.samples[2].reasoning = TextTryAgain
    /\ reasoning.samples[2].outcome = NoOutcome

(***************************************************************************)
(* SpecTags: extract_reasoning main on reasoning texts with keywords.      *)
(***************************************************************************)
TextRetryBuild == <<"R","e","t","r","y"," ","t","h","e"," ","b","u","i","l","d">>
TextLookAround == <<"L","o","o","k"," ","a","r","o","u","n","d">>
TextExploreRetry == <<"e","x","p","l","o","r","e",","," ","t","h","e","n"," ","r","e","t","r","y">>
TextRunIt == <<"r","u","n"," ","i","t">>

ActionSaying(text) == ReasonedAction(TsOne, [reasoning_content |-> text])

TagPool ==
    {ActionSaying(TextTryAgain), ActionSaying(TextRetryBuild), ActionSaying(TextLookAround),
     ActionSaying(TextExploreRetry), ActionSaying(TextRunIt),
     ObservationBlock(TsTwo, Obs([exit_code |-> 1, output |-> OutFail])),
     ObservationBlock(TsTwo, Obs([exit_code |-> 0]))}

TagInit ==
    /\ ParserIdle
    /\ logDir \in OneFileDirs(TagPool)
    /\ threshold = DefaultThreshold
    /\ session = Idle
    /\ failures = Idle
    /\ timing = Idle
    /\ slow = Idle
    /\ reasoning = Ready
    /\ hans = Idle

SpecTags == TagInit /\ [][ReasoningNext]_vars

(***************************************************************************)
(* Claims about the tags of the reasoning samples (SpecTags).              *)
(***************************************************************************)
\* the tag of the texts of the generated logs by their keywords, "" for none
KeywordTag(text) ==
    CASE text \in {TextTryAgain, TextRetryBuild, TextExploreRetry} -> "RETRY"
      [] text = TextLookAround -> "EXPLORE"
      [] OTHER -> ""

\* the tag of the action at i: FAILURE when the next event is a failing
\* observation, else the tag of its keywords
TagOfAction(blks, i) ==
    IF i + 1 \in DOMAIN blks /\ IsFailingAt(blks, i + 1)
    THEN "FAILURE"
    ELSE KeywordTag(blks[i].data.reasoning_content)

\* the actions of the file that get a tag
TaggedActions(blks) == {i \in ActionEvents(blks) : TagOfAction(blks, i) # ""}

\* C23: the interesting cases are, in order, the samples with a tag, one
\* entry and one tag each: FAILURE when the outcome has a non-zero exit code,
\* whatever the text says; otherwise RETRY for "retry" or "again" in any
\* letter case; otherwise EXPLORE for "explore" or "look"; a sample with
\* none of these is left out.
C23_OneTagByPrecedence ==
    reasoning.pc = "done" =>
       LET tagged == TaggedActions(TheBlocks)
           interesting == reasoning.interesting
       IN  /\ Len(interesting) = Cardinality(tagged)
           /\ reasoning.report.interesting_count = Cardinality(tagged)
           /\ reasoning.report.total = Cardinality(ActionEvents(TheBlocks))
           /\ \A n \in DOMAIN interesting :
                 n <= Cardinality(tagged) =>
                    LET i == NthOf(tagged, n) IN
                    /\ interesting[n].category = TagOfAction(TheBlocks, i)
                    /\ interesting[n].sample.reasoning = TheBlocks[i].data.reasoning_content
                    /\ reasoning.report.cases[n].category = TagOfAction(TheBlocks, i)

\* C23 witness: the same text, with both keywords, was tagged FAILURE before
\* a failed observation and RETRY elsewhere, and the text without keywords
\* was left out.
C23_Witness ==
    /\ reasoning.pc = "done"
    /\ TheBlocks = <<ActionSaying(TextExploreRetry),
                     ObservationBlock(TsTwo, Obs([exit_code |-> 1, output |-> OutFail])),
                     ActionSaying(TextExploreRetry),
                     ActionSaying(TextRunIt)>>
    /\ Len(reasoning.samples) = 3
    /\ Len(reasoning.interesting) = 2
    /\ reasoning.interesting[1].category = "FAILURE"
    /\ reasoning.interesting[2].category = "RETRY"

(***************************************************************************)
(* SpecOrdering: the reports of repeated commands and retry loops on       *)
(* sessions of up to MaxCommands commands, in one file or cut in two.      *)
(***************************************************************************)
MaxCommands == 7

\* the sessions of at most most actions of the commands
SessionsOf(commands, most) ==
    UNION {[1..n -> {ActionBlock(None, Terminal(c)) : c \in commands}] : n \in 0..most}

\* one file of three commands, or two files of two commands listed either way
OrderingDirs ==
    {<<[name |-> NameA, blocks |-> s]>> :
        s \in SessionsOf({CmdMakeTest, CmdLs, CmdEcho}, MaxCommands)}
    \cup
    UNION {{LET a == [name |-> NameA, blocks |-> SubSeq(s, 1, k)]
                b == [name |-> NameB, blocks |-> SubSeq(s, k + 1, Len(s))]
            IN  IF swap THEN <<b, a>> ELSE <<a, b>> :
               k \in 0..Len(s), swap \in BOOLEAN} :
           s \in SessionsOf({CmdMakeTest, CmdLs}, MaxCommands)}

OrderingInit ==
    /\ ParserIdle
    /\ logDir \in OrderingDirs
    /\ threshold = DefaultThreshold
    /\ session = Ready
    /\ failures = Ready
    /\ timing = Idle
    /\ slow = Idle
    /\ reasoning = Idle
    /\ hans = Idle

SpecOrdering == OrderingInit /\ [][RepetitionNext]_vars

(***************************************************************************)
(* Claims about the order of the reports (SpecOrdering).                   *)
(***************************************************************************)
\* where the command first occurs in the file, and how often it occurs
FirstSeenAt(blks, cmd) ==
    CHOOSE i \in DOMAIN blks :
        /\ blks[i].data.action.command = cmd
        /\ \A k \in 1..(i - 1) : blks[k].data.action.command # cmd
TimesSeen(blks, cmd) ==
    Cardinality({i \in DOMAIN blks : blks[i].data.action.command = cmd})

\* the commands of the file seen at least least times
SeenAtLeast(blks, least) ==
    {blks[i].data.action.command : i \in DOMAIN blks} \cap
    {cmd \in {CmdMakeTest, CmdLs, CmdEcho} : TimesSeen(blks, cmd) >= least}

\* the lines of a report come by count, the larger first
ByCountDescending(lines) ==
    \A m, n \in DOMAIN lines : m < n => lines[m].count >= lines[n].count

\* C24: the repeated commands and the retry loops are printed by count, the
\* larger first; lines of equal count come in first-seen order, which is the
\* order of first occurrence within a file and the name order of the files
\* across files; and every line has the key and the count of its entry.
C24_ByCountTiesInFirstSeenOrder ==
    (session.pc = "done" /\ failures.pc = "done") =>
       LET repeated == session.report.repeated
           retry == failures.report.retry
       IN  /\ ByCountDescending(repeated)
           /\ {repeated[n].command : n \in DOMAIN repeated}
                 = SeenAtLeast(TheBlocks, RepeatThreshold)
           /\ Len(repeated) = Cardinality(SeenAtLeast(TheBlocks, RepeatThreshold))
           /\ \A n \in DOMAIN repeated :
                 repeated[n].count = TimesSeen(TheBlocks, repeated[n].command)
           /\ \A m, n \in DOMAIN repeated :
                 (m < n /\ repeated[m].count = repeated[n].count) =>
                    FirstSeenAt(TheBlocks, repeated[m].command)
                       < FirstSeenAt(TheBlocks, repeated[n].command)
           /\ ByCountDescending(retry)
           /\ \A name \in {logDir[f].name : f \in DOMAIN logDir} :
                 /\ {retry[n].command : n \in {k \in DOMAIN retry : retry[k].file = name}}
                       = SeenAtLeast(FileNamed(name), RetryThreshold)
                 /\ Cardinality({k \in DOMAIN retry : retry[k].file = name})
                       = Cardinality(SeenAtLeast(FileNamed(name), RetryThreshold))
           /\ \A n \in DOMAIN retry :
                 retry[n].count = TimesSeen(FileNamed(retry[n].file), retry[n].command)
           /\ \A m, n \in DOMAIN retry :
                 (m < n /\ retry[m].count = retry[n].count) =>
                    \/ StrLess(retry[m].file, retry[n].file)
                    \/ /\ retry[m].file = retry[n].file
                       /\ FirstSeenAt(FileNamed(retry[m].file), retry[m].command)
                             < FirstSeenAt(FileNamed(retry[n].file), retry[n].command)

\* C24 witness: b.log is listed first; three commands each in a.log and in
\* b.log give two retry loops of equal count, printed in the name order of
\* the files.
C24_Witness ==
    /\ session.pc = "done"
    /\ failures.pc = "done"
    /\ Len(logDir) = 2
    /\ logDir[1].name = NameB
    /\ Len(failures.report.retry) = 2
    /\ failures.report.retry[1] = [count |-> 3, file |-> NameA, command |-> CmdLs]
    /\ failures.report.retry[2] = [count |-> 3, file |-> NameB, command |-> CmdMakeTest]
    /\ session.report.repeated = <<[count |-> 3, command |-> CmdMakeTest]>>

(***************************************************************************)
(* Claims about the six copies of parse_log_file (Spec).                   *)
(***************************************************************************)
\* the (kind, timestamp) pairs of a sequence of events
PairsOf(evs) == [k \in DOMAIN evs |-> <<evs[k].kind, evs[k].timestamp>>]

\* the matched blocks that failed to decode, and those with a kind in them
FailedBlocks == {b \in DOMAIN blocks : blocks[b].outcome # "decoded"}
HoldsKind(b) ==
    \E p \in blocks[b].open..blocks[b].close : content[p] \in {"KA", "KO", "KT"}

\* the events of the run that came from blocks that decoded
DecodedOnly == SelectSeq(events, LAMBDA e : "_parse_error" \notin DOMAIN e.data)

KwNoRule == <<"N","o"," ","r","u","l","e">>
KwNotFound == <<"n","o","t"," ","f","o","u","n","d">>

\* the commands main hands to sh()
ShStatusPorcelain == "git status --porcelain 2>/dev/null"
ShStatusShort == "git status --short"
ShReset == "git reset --hard HEAD && git clean -fd"
ShPull == "git pull --rebase origin main"
ShMakeTest == "make test"
ShAdd == "git add -A"
ShDiffCached == "git diff --cached --stat && echo '---' && git diff --cached"
ShCommit == "git commit -m"
ShPush == "git push origin main"

\* what (returncode, stdout+stderr) of make test can be
OutPassed == <<"o","k"," ","a","l","l">>
OutNoRule == <<"m","a","k","e",":"," ","*","*","*"," ","N","o"," ","r","u","l","e"," ","t","o"," ","m","a","k","e"," ","t","a","r","g","e","t">>
OutMakeNotFound == <<"s","h",":"," ","1",":"," ","m","a","k","e",":"," ","n","o","t"," ","f","o","u","n","d">>
OutSymbolNotFound == <<"F","A","I","L",":"," ","s","y","m","b","o","l"," ","n","o","t"," ","f","o","u","n","d">>
TestResults ==
    {[code |-> 0, out |-> OutPassed],
     [code |-> 2, out |-> OutNoRule],
     [code |-> 127, out |-> OutMakeNotFound],
     [code |-> 2, out |-> OutFail],
     [code |-> 2, out |-> OutSymbolNotFound]}
NoResult == [code |-> -1, out |-> <<>>]

\* tests taken as passed whenever make printed anything
RunTestsAnyOutput(result) == result.code = 0 \/ result.out # <<>>

\* run_tests(): code == 0, or "No rule" in out or "not found" in out
RunTests(result) ==
    \/ result.code = 0
    \/ Contains(KwNoRule, result.out)
    \/ Contains(KwNotFound, result.out)

\* args = parser.parse_args(): --reset and --keep exclude each other
HansArgs ==
    {a \in [dry_run : BOOLEAN, no_commit : BOOLEAN, no_pull : BOOLEAN,
            reset : BOOLEAN, keep : BOOLEAN] : ~(a.reset /\ a.keep)}

\* main before its first statement: the arguments, whether LLM_API_KEY is
\* set and whether the working tree has uncommitted changes
HansStart(args, api_key, dirty) ==
    [pc |-> "start", args |-> args, api_key |-> api_key, dirty |-> dirty,
     dirty_start |-> dirty, dirty_gather |-> FALSE,
     ran |-> <<>>, tests |-> NoResult, code |-> -1]

HansUnchanged ==
    UNCHANGED <<parserVars, logDir, threshold, session, failures, timing, slow, reasoning>>

\* if args.dry_run: ... return
HansDryRun ==
    /\ hans.pc = "start"
    /\ hans' = [hans EXCEPT !.pc = IF hans.args.dry_run THEN "returned" ELSE "preflight"]
    /\ HansUnchanged

\* PRE-FLIGHT: if is_dirty(): git_reset(), continue, or sys.exit(1)
HansPreflight ==
    /\ hans.pc = "preflight"
    /\ hans' =
         IF ~hans.dirty
         THEN [hans EXCEPT !.pc = "api_key", !.ran = Append(@, ShStatusPorcelain)]
         ELSE IF hans.args.reset
         THEN [hans EXCEPT !.pc = "api_key", !.dirty = FALSE,
                           !.ran = @ \o <<ShStatusPorcelain, ShStatusShort, ShReset>>]
         ELSE IF hans.args.keep
         THEN [hans EXCEPT !.pc = "api_key",
                           !.ran = @ \o <<ShStatusPorcelain, ShStatusShort>>]
         ELSE [hans EXCEPT !.pc = "exited",
                           !.ran = @ \o <<ShStatusPorcelain, ShStatusShort>>]
    /\ HansUnchanged

\* if not api_key: sys.exit(1)
HansApiKey ==
    /\ hans.pc = "api_key"
    /\ hans' = [hans EXCEPT !.pc = IF hans.api_key THEN "pull" ELSE "exited"]
    /\ HansUnchanged

\* if not args.no_pull: git_pull()
HansPull ==
    /\ hans.pc = "pull"
    /\ hans' = [hans EXCEPT !.pc = "agents",
                            !.ran = IF hans.args.no_pull THEN @ ELSE Append(@, ShPull)]
    /\ HansUnchanged

\* conversation.run(): the agents leave the tree with or without changes
HansAgents ==
    /\ hans.pc = "agents"
    /\ \E changed \in BOOLEAN :
          hans' = [hans EXCEPT !.pc = "gather", !.dirty = changed]
    /\ HansUnchanged

\* GATHER: if is_dirty(): ... else: "No changes"
HansGather ==
    /\ hans.pc = "gather"
    /\ hans' =
         IF hans.dirty
         THEN [hans EXCEPT !.pc = "tests", !.dirty_gather = TRUE,
                           !.ran = @ \o <<ShStatusPorcelain, ShStatusShort>>]
         ELSE [hans EXCEPT !.pc = "report", !.ran = Append(@, ShStatusPorcelain)]
    /\ HansUnchanged

\* if run_tests() and not args.no_commit: ... elif args.no_commit: ... else: ...
HansRunTests ==
    /\ hans.pc = "tests"
    /\ \E result \in TestResults :
          hans' = [hans EXCEPT !.pc = IF RunTests(result) /\ ~hans.args.no_commit
                                      THEN "commit" ELSE "report",
                               !.tests = result,
                               !.ran = Append(@, ShMakeTest)]
    /\ HansUnchanged

\* sh("git add -A"); generate_commit_message(llm); code, _ = sh(git commit)
HansCommit ==
    /\ hans.pc = "commit"
    /\ \E code \in {0, 1} :
          hans' = [hans EXCEPT !.pc = IF code = 0 THEN "push" ELSE "report",
                               !.code = code,
                               !.dirty = IF code = 0 THEN FALSE ELSE @,
                               !.ran = @ \o <<ShAdd, ShDiffCached, ShCommit>>]
    /\ HansUnchanged

\* if code == 0: code, _ = sh("git push origin main")
HansPush ==
    /\ hans.pc = "push"
    /\ \E code \in {0, 1} :
          hans' = [hans EXCEPT !.pc = "report", !.code = code,
                               !.ran = Append(@, ShPush)]
    /\ HansUnchanged

\* subprocess.run(..., timeout=120) raises TimeoutExpired out of main
HansTimeout ==
    /\ hans.pc \in {"tests", "commit", "push"}
    /\ hans' = [hans EXCEPT !.pc = "raised",
                            !.ran = @ \o CASE hans.pc = "tests" -> <<ShMakeTest>>
                                           [] hans.pc = "commit" -> <<ShAdd, ShDiffCached>>
                                           [] OTHER -> <<ShPush>>]
    /\ HansUnchanged

\* the same out of sh(git commit), after the message was generated
HansCommitTimeout ==
    /\ hans.pc = "commit"
    /\ hans' = [hans EXCEPT !.pc = "raised",
                            !.ran = @ \o <<ShAdd, ShDiffCached, ShCommit>>]
    /\ HansUnchanged

\* Report costs
HansReport ==
    /\ hans.pc = "report"
    /\ hans' = [hans EXCEPT !.pc = "done"]
    /\ HansUnchanged

HansNext ==
    \/ HansDryRun
    \/ HansPreflight
    \/ HansApiKey
    \/ HansPull
    \/ HansAgents
    \/ HansGather
    \/ HansRunTests
    \/ HansCommit
    \/ HansPush
    \/ HansTimeout
    \/ HansCommitTimeout
    \/ HansReport

HansInit ==
    /\ ParserIdle
    /\ logDir = <<>>
    /\ threshold = DefaultThreshold
    /\ session = Idle
    /\ failures = Idle
    /\ timing = Idle
    /\ slow = Idle
    /\ reasoning = Idle
    /\ hans \in {HansStart(a, k, d) : a \in HansArgs, k \in BOOLEAN, d \in BOOLEAN}

SpecHans == HansInit /\ [][HansNext]_vars

(***************************************************************************)
(* Claims about the gather phase of hans.py (SpecHans).                    *)
(***************************************************************************)
\* the positions of a command among the commands run
RanAt(cmd) == {n \in DOMAIN hans.ran : hans.ran[n] = cmd}

\* the make test run exited 0 or printed "No rule" or "not found"
TestsLetThrough ==
    \/ hans.tests.code = 0
    \/ hans.tests.out \in {OutNoRule, OutMakeNotFound, OutSymbolNotFound}

\* git commit runs only when the tree is dirty after the agents ran,
\* --no-commit was not given and the make test before it exited 0 or printed
\* "No rule" or "not found"; it runs at most once and never under --dry-run
\* or after a dirty start with neither --reset nor --keep; git push runs only
\* after a git commit that exited 0; and a main that ends with commit allowed
\* has run git commit.
CommitOnlyAfterTests ==
    /\ RanAt(ShCommit) # {} =>
          /\ hans.dirty_gather
          /\ ~hans.args.no_commit
          /\ ~hans.args.dry_run
          /\ ~(hans.dirty_start /\ ~hans.args.reset /\ ~hans.args.keep)
          /\ TestsLetThrough
          /\ Cardinality(RanAt(ShCommit)) = 1
          /\ \E t \in RanAt(ShMakeTest) : \A c \in RanAt(ShCommit) : t < c
    /\ RanAt(ShPush) # {} =>
          /\ Cardinality(RanAt(ShPush)) = 1
          /\ \E c \in RanAt(ShCommit) : \A q \in RanAt(ShPush) : c < q
          /\ hans.pc \in {"raised", "report", "done"}
    /\ (hans.pc = "done" /\ hans.dirty_gather /\ ~hans.args.no_commit /\ TestsLetThrough)
          => RanAt(ShCommit) # {}

\* C26: in the gather phase git commit runs only when the tree is dirty
\* after the agents ran, --no-commit was not given and make test exited 0 or
\* printed "No rule" or "not found"; in every other case neither commit nor
\* push runs; a step that runs git push starts where the last command was a git commit
\* and code holds its exit code 0
PushOnlyAfterCommit ==
    (Len(hans'.ran) > Len(hans.ran) /\ hans'.ran[Len(hans'.ran)] = ShPush) =>
       /\ hans.ran # <<>>
       /\ hans.ran[Len(hans.ran)] = ShCommit
       /\ hans.code = 0

====
